---------------------------- MODULE Spec2Model ----------------------------
(***************************************************************************)
(* Model of the Collection -> TEM_OUTPUT pipeline of shopee-dev: the two   *)
(* implementations shopee_creator (suffix/prefix "sc") and item_creator    *)
(* (prefix "ic").                                                          *)
(*                                                                         *)
(* A Python str is modelled as a sequence of one-character strings, so     *)
(* that strip(), lower(), the regular expressions and the substring tests  *)
(* of the source are computed and not assumed.  A worksheet is modelled as *)
(* the matrix get_all_values() returns: a sequence of rows, each row a     *)
(* sequence of cells.                                                      *)
(***************************************************************************)
EXTENDS Integers, Sequences, FiniteSets, TLC

(***************************************************************************)
(* Characters                                                              *)
(***************************************************************************)
\* One letter outside ASCII (Hangul GA): a word character for Python's \w,
\* but not in [a-z0-9-].
HANGUL == "U+AC00"

LowerLetters ==
    {"a","b","c","d","e","f","g","h","i","j","k","l","m",
     "n","o","p","q","r","s","t","u","v","w","x","y","z"}

UpperLetters ==
    {"A","B","C","D","E","F","G","H","I","J","K","L","M",
     "N","O","P","Q","R","S","T","U","V","W","X","Y","Z"}

Digits == {"0","1","2","3","4","5","6","7","8","9"}

LowerOf ==
    ("A" :> "a") @@ ("B" :> "b") @@ ("C" :> "c") @@ ("D" :> "d") @@
    ("E" :> "e") @@ ("F" :> "f") @@ ("G" :> "g") @@ ("H" :> "h") @@
    ("I" :> "i") @@ ("J" :> "j") @@ ("K" :> "k") @@ ("L" :> "l") @@
    ("M" :> "m") @@ ("N" :> "n") @@ ("O" :> "o") @@ ("P" :> "p") @@
    ("Q" :> "q") @@ ("R" :> "r") @@ ("S" :> "s") @@ ("T" :> "t") @@
    ("U" :> "u") @@ ("V" :> "v") @@ ("W" :> "w") @@ ("X" :> "x") @@
    ("Y" :> "y") @@ ("Z" :> "z")

\* str.isspace() / the regex class \s, on the characters of the model
IsSpace(c) == c = " "

IsDigit(c) == c \in Digits

\* the regex class \w without "_": what [\W_]+ does not remove
IsAlnumUnicode(c) == c \in LowerLetters \/ c \in UpperLetters \/ c \in Digits \/ c = HANGUL

\* the regex class [a-z0-9\-]
IsLowerAlnumHyphen(c) == c \in LowerLetters \/ c \in Digits \/ c = "-"

(***************************************************************************)
(* Python str operations                                                   *)
(***************************************************************************)
LowerChar(c) == IF c \in UpperLetters THEN LowerOf[c] ELSE c

\* str.lower()
lower(s) == [i \in 1..Len(s) |-> LowerChar(s[i])]

RECURSIVE lstrip(_)
\* str.lstrip()
lstrip(s) == IF s # <<>> /\ IsSpace(Head(s)) THEN lstrip(Tail(s)) ELSE s

RECURSIVE rstrip(_)
\* str.rstrip()
rstrip(s) ==
    IF s # <<>> /\ IsSpace(s[Len(s)]) THEN rstrip(SubSeq(s, 1, Len(s) - 1)) ELSE s

\* str.strip()
strip(s) == rstrip(lstrip(s))

\* index of the first occurrence of character c in s, 0 if none
IndexOf(s, c) ==
    IF \E i \in 1..Len(s) : s[i] = c
    THEN CHOOSE i \in 1..Len(s) : s[i] = c /\ \A j \in 1..(i - 1) : s[j] # c
    ELSE 0

\* a in k: substring test of Python
Contains(k, a) ==
    \E i \in 0..(Len(k) - Len(a)) : SubSeq(k, i + 1, i + Len(a)) = a

\* s.split(sep, 1)[0] for a one-character separator
SplitHead(s, sep) ==
    IF IndexOf(s, sep) = 0 THEN s ELSE SubSeq(s, 1, IndexOf(s, sep) - 1)

\* number of leading characters of s that satisfy IsDigit
RECURSIVE DigitRun(_)
DigitRun(s) == IF s # <<>> /\ IsDigit(Head(s)) THEN 1 + DigitRun(Tail(s)) ELSE 0

\* s without its first n characters
Drop(s, n) == SubSeq(s, n + 1, Len(s))

(***************************************************************************)
(* header_key, top_of_category: shopee_creator/utils_creator.py            *)
(***************************************************************************)
\* re.sub(r"[\W_]+", "", str(s or "").lower())
sc_header_key(s) == SelectSeq(lower(s), IsAlnumUnicode)

\* The regex ^\s*\d+\s*-\s*(.*) : <<matched, group 1>>
sc_CodeMatch(s) ==
    LET a == lstrip(s)
        n == DigitRun(a)
        b == lstrip(Drop(a, n))
    IN  IF n > 0 /\ b # <<>> /\ Head(b) = "-"
        THEN <<TRUE, lstrip(Tail(b))>>
        ELSE <<FALSE, <<>>>>

RECURSIVE sc_NormSlashes(_)
\* re.sub(r'\s*/\s*', '/', s): the spaces around every slash are removed
sc_NormSlashes(s) ==
    IF s = <<>> THEN <<>>
    ELSE IF lstrip(s) # <<>> /\ Head(lstrip(s)) = "/"
         THEN <<"/">> \o sc_NormSlashes(lstrip(Tail(lstrip(s))))
         ELSE <<Head(s)>> \o sc_NormSlashes(Tail(s))

\* a plausible slip: the "<digits> - " code is left on the top-level part
sc_top_of_category_KeepCode(s) ==
    LET normalized_s == sc_NormSlashes(strip(s))
        top_part == strip(SplitHead(normalized_s, "/"))
    IN  IF top_part = <<>> THEN <<>> ELSE top_part

sc_top_of_category(s) ==
    LET normalized_s == sc_NormSlashes(strip(s))
        top_part == strip(SplitHead(normalized_s, "/"))
        m == sc_CodeMatch(top_part)
    IN  IF top_part = <<>> THEN <<>>
        ELSE IF m[1] THEN strip(m[2])
        ELSE top_part

(***************************************************************************)
(* header_key, top_of_category: item_creator/utils_common.py               *)
(***************************************************************************)
\* norm(): strip().lower(); the replaced characters are not in the model
ic_norm(s) == lower(strip(s))

\* re.sub(r"[^a-z0-9\-]+", "", norm(s))
ic_header_key(s) == SelectSeq(ic_norm(s), IsLowerAlnumHyphen)

\* The regex ^\s*\d+\s*-\s*(.+)$ : group 1 if it matches, else s.  (.+)
\* needs one character: when only spaces follow the hyphen, \s* gives its
\* last space back to the group.
ic_strip_category_id(s) ==
    LET a == lstrip(s)
        n == DigitRun(a)
        b == lstrip(Drop(a, n))
        afterHyphen == Tail(b)
    IN  IF n > 0 /\ b # <<>> /\ Head(b) = "-"
        THEN IF lstrip(afterHyphen) # <<>> THEN lstrip(afterHyphen)
             ELSE IF afterHyphen # <<>> THEN <<afterHyphen[Len(afterHyphen)]>>
             ELSE s
        ELSE s

\* the separators, in the order the loop tries them
ic_Separators == <<"/", ">", "|", "\\">>

\* for sep in [...]: if sep in tail: tail = tail.split(sep, 1)[0]; break
ic_SplitFirstSep(tail) ==
    IF \E k \in 1..Len(ic_Separators) : IndexOf(tail, ic_Separators[k]) > 0
    THEN LET k == CHOOSE k \in 1..Len(ic_Separators) :
                     /\ IndexOf(tail, ic_Separators[k]) > 0
                     /\ \A j \in 1..(k - 1) : IndexOf(tail, ic_Separators[j]) = 0
         IN  SplitHead(tail, ic_Separators[k])
    ELSE tail

\* returns None as the empty string: every caller takes "top or ''"
ic_top_of_category(cat) ==
    IF cat = <<>> THEN <<>>
    ELSE lower(strip(ic_SplitFirstSep(ic_strip_category_id(cat))))

(***************************************************************************)
(* _is_true and forward_fill_by_group                                      *)
(*                                                                         *)
(* Column indices are 1-based in the model: the source's index i is i + 1  *)
(* here, and its -1 (not found) is 0.                                      *)
(***************************************************************************)
CHECKMARK == "U+2714"
CHECKBOX == "U+2705"

TrueStrings ==
    {<<"t", "r", "u", "e">>, <<"t">>, <<"1">>, <<"y">>, <<"y", "e", "s">>,
     <<CHECKMARK>>, <<CHECKBOX>>}

\* shopee_creator: the cells read from a sheet are str, never bool
sc_is_true(v) == lower(strip(v)) \in TrueStrings

\* item_creator
ic_is_true(v) == lower(strip(v)) \in TrueStrings

\* row[i] if i < len(row) else ""
CellAt(row, i) == IF i >= 1 /\ i <= Len(row) THEN row[i] ELSE <<>>

\* not any(str(x or "").strip() for x in row)
RowIsBlank(row) == \A j \in 1..Len(row) : strip(row[j]) = <<>>

\* The reset_when closures of the callers: "blank" is run_step_C2's (both
\* implementations), "blank_or_not_create" is item_creator's run_step_C5_images.
reset_when(kind, create_i, row) ==
    IF kind = "blank" THEN RowIsBlank(row)
    ELSE RowIsBlank(row) \/ ~ic_is_true(CellAt(row, create_i))

\* shopee_creator: one iteration of "for r in range(header_rows, len(output))"
sc_ff_row(row, prev_row, fill_cols, kind, create_i) ==
    IF reset_when(kind, create_i, row)
    THEN [j \in 1..Len(row) |-> IF j \in fill_cols THEN <<>> ELSE row[j]]
    ELSE [j \in 1..Len(row) |->
            IF /\ j \in fill_cols
               /\ j <= Len(prev_row)
               /\ strip(row[j]) = <<>>
               /\ strip(prev_row[j]) # <<>>
            THEN strip(prev_row[j])
            ELSE row[j]]

RECURSIVE sc_ff_loop(_, _, _, _, _)
sc_ff_loop(output, r, fill_cols, kind, create_i) ==
    IF r > Len(output) THEN output
    ELSE sc_ff_loop(
            [output EXCEPT ![r] = sc_ff_row(output[r], output[r - 1], fill_cols, kind, create_i)],
            r + 1, fill_cols, kind, create_i)

\* shopee_creator/utils_creator.py forward_fill_by_group, header_rows = 1.
\* is_same_group is computed by the source and never read, so group_idx has
\* no effect.
sc_forward_fill_by_group(data, group_idx, fill_cols, kind, create_i) ==
    sc_ff_loop(data, 2, fill_cols, kind, create_i)

\* item_creator: the row after "r[idx] = last_vals.get(idx, '')"
ic_ff_fill(r, fill_cols, last_vals) ==
    [j \in 1..Len(r) |->
        IF j \in fill_cols /\ strip(r[j]) = <<>> THEN last_vals[j] ELSE r[j]]

\* item_creator: "for idx in fill_col_indices: if ... (r[idx] or '').strip():
\* last_vals[idx] = r[idx]"
ic_ff_cache(r, fill_cols, last_vals) ==
    [j \in fill_cols |->
        IF j <= Len(r) /\ strip(r[j]) # <<>> THEN r[j] ELSE last_vals[j]]

NoVals(fill_cols) == [j \in fill_cols |-> <<>>]

RECURSIVE ic_ff_loop(_, _, _, _, _, _, _, _)
\* has_key is "current_key is not None"; last_vals.get(idx, "") is last_vals[idx]
ic_ff_loop(out, i, group_idx, fill_cols, kind, create_i, has_key, last_vals) ==
    IF i > Len(out) THEN out
    ELSE LET r == out[i]
             gval == strip(CellAt(r, group_idx))
         IN  IF reset_when(kind, create_i, r)
             THEN ic_ff_loop(out, i + 1, group_idx, fill_cols, kind, create_i,
                             FALSE, NoVals(fill_cols))
             ELSE IF gval # <<>>
             THEN ic_ff_loop(out, i + 1, group_idx, fill_cols, kind, create_i, TRUE,
                             ic_ff_cache(r, fill_cols,
                                         [j \in fill_cols |-> CellAt(r, j)]))
             ELSE IF has_key
             THEN LET filled == ic_ff_fill(r, fill_cols, last_vals)
                  IN  ic_ff_loop([out EXCEPT ![i] = filled], i + 1, group_idx, fill_cols,
                                 kind, create_i, has_key,
                                 ic_ff_cache(filled, fill_cols, last_vals))
             ELSE ic_ff_loop(out, i + 1, group_idx, fill_cols, kind, create_i, has_key,
                             ic_ff_cache(r, fill_cols, last_vals))

\* item_creator/utils_common.py forward_fill_by_group
ic_forward_fill_by_group(rows, group_idx, fill_cols, kind, create_i) ==
    IF rows = <<>> THEN rows
    ELSE ic_ff_loop(rows, 2, group_idx, fill_cols, kind, create_i, FALSE, NoVals(fill_cols))

(***************************************************************************)
(* Worksheets                                                              *)
(*                                                                         *)
(* A worksheet is held as what get_all_values() returns for it: the rows   *)
(* up to the last row with a non-empty cell, each padded to the width of   *)
(* the widest row.  Cell values only; the grid size is not modelled.       *)
(***************************************************************************)
MaxOf(S) == CHOOSE x \in S : \A y \in S : y <= x
MinOf(S) == CHOOSE x \in S : \A y \in S : x <= y
FirstIn(S) == IF S = {} THEN 0 ELSE MinOf(S)

LastNonEmpty(row) == IF \A j \in 1..Len(row) : row[j] = <<>> THEN 0
                     ELSE MaxOf({j \in 1..Len(row) : row[j] # <<>>})

Rect(grid, nrows, width) == [i \in 1..nrows |-> [j \in 1..width |-> CellAt(grid[i], j)]]

UsedRows(grid) == {i \in 1..Len(grid) : LastNonEmpty(grid[i]) > 0}

RectOfUsed(grid, used) ==
    IF used = {} THEN <<>>
    ELSE Rect(grid, MaxOf(used), MaxOf({LastNonEmpty(grid[i]) : i \in used}))

get_all_values(grid) == RectOfUsed(grid, UsedRows(grid))

\* Cell(row, col, value) applied to a worksheet
SetCell(grid, r, c, v) ==
    LET nrows == IF r > Len(grid) THEN r ELSE Len(grid)
        rowAt(i) == IF i <= Len(grid) THEN grid[i] ELSE <<>>
        wide(i) == IF i = r /\ c > Len(rowAt(i)) THEN c ELSE Len(rowAt(i))
    IN  [i \in 1..nrows |->
            [j \in 1..wide(i) |-> IF i = r /\ j = c THEN v ELSE CellAt(rowAt(i), j)]]

RECURSIVE update_cells(_, _)
\* ws.update_cells(updates): updates is a sequence of <<row, col, value>>
update_cells(grid, updates) ==
    IF updates = <<>> THEN get_all_values(grid)
    ELSE update_cells(SetCell(grid, Head(updates)[1], Head(updates)[2], Head(updates)[3]),
                      Tail(updates))

RECURSIVE IntToStr(_)
\* str(n) for n >= 0
IntToStr(n) ==
    LET d == <<"0", "1", "2", "3", "4", "5", "6", "7", "8", "9">>
    IN  IF n < 10 THEN <<d[n + 1]>> ELSE IntToStr(n \div 10) \o <<d[(n % 10) + 1]>>

(***************************************************************************)
(* Column lookup.  impl is "sc" (shopee_creator) or "ic" (item_creator).   *)
(***************************************************************************)
header_key(impl, s) == IF impl = "sc" THEN sc_header_key(s) ELSE ic_header_key(s)

top_of_category(impl, s) == IF impl = "sc" THEN sc_top_of_category(s) ELSE ic_top_of_category(s)

KeysOf(impl, header_row) == [i \in 1..Len(header_row) |-> header_key(impl, header_row[i])]

ExactMatches(keys, aliases) == {i \in 1..Len(keys) : keys[i] \in aliases}

PartialMatches(keys, aliases) ==
    {i \in 1..Len(keys) : \E a \in aliases : a # <<>> /\ Contains(keys[i], a)}

\* exact matches first, then substring matches; 0 is the source's -1
PickMatch(exact, partial) == IF exact # {} THEN MinOf(exact) ELSE FirstIn(partial)

find_in_keys(keys, aliases) ==
    PickMatch(ExactMatches(keys, aliases), PartialMatches(keys, aliases))

\* _find_col_index(keys, name, extra_alias)
find_col_index(impl, keys, name, extra_alias) ==
    find_in_keys(keys, {header_key(impl, a) : a \in extra_alias \cup {name}})

VariationAliases(impl) ==
    {<<"v", "a", "r", "i", "a", "t", "i", "o", "n", "n", "o">>, <<"v", "a", "r", "i", "a", "t", "i", "o", "n", "i", "n", "t", "e", "g", "r", "a", "t", "i", "o", "n", "n", "o">>, <<"v", "a", "r", " ", "c", "o", "d", "e">>, <<"v", "a", "r", "i", "a", "t", "i", "o", "n", " ", "c", "o", "d", "e">>}
    \cup (IF impl = "sc" THEN {<<"p", "a", "r", "e", "n", "t", " ", "s", "k", "u">>, <<"p", "a", "r", "e", "n", "t", "s", "k", "u">>} ELSE {})

collect_from_keys(impl, keys) ==
    LET idx(name, aliases) == find_col_index(impl, keys, name, aliases)
    IN  [create |-> idx(<<"c", "r", "e", "a", "t", "e">>, {<<"u", "s", "e">>, <<"a", "p", "p", "l", "y">>}),
         variation |-> idx(<<"v", "a", "r", "i", "a", "t", "i", "o", "n">>, VariationAliases(impl)),
         sku |-> idx(<<"s", "k", "u">>, {<<"s", "e", "l", "l", "e", "r", "_", "s", "k", "u">>}),
         brand |-> idx(<<"b", "r", "a", "n", "d">>, {<<"b", "r", "a", "n", "d", "n", "a", "m", "e">>}),
         option_eng |-> idx(<<"o", "p", "t", "i", "o", "n", "(", "e", "n", "g", ")">>, {<<"o", "p", "t", "i", "o", "n", "e", "n", "g">>, <<"o", "p", "t", "i", "o", "n">>, <<"o", "p", "t", "i", "o", "n", "1">>,
                                              <<"o", "p", "t", "i", "o", "n", " ", "n", "a", "m", "e">>, <<"o", "p", "t", "i", "o", "n", " ", "f", "o", "r", " ", "v", "a", "r", "i", "a", "t", "i", "o", "n", " ", "1">>}),
         prod_name |-> idx(<<"p", "r", "o", "d", "u", "c", "t", " ", "n", "a", "m", "e">>, {<<"i", "t", "e", "m", "(", "e", "n", "g", ")">>, <<"i", "t", "e", "m", "e", "n", "g">>, <<"n", "a", "m", "e">>}),
         desc |-> idx(<<"d", "e", "s", "c", "r", "i", "p", "t", "i", "o", "n">>, {<<"p", "r", "o", "d", "u", "c", "t", " ", "d", "e", "s", "c", "r", "i", "p", "t", "i", "o", "n">>}),
         category |-> idx(<<"c", "a", "t", "e", "g", "o", "r", "y">>, {}),
         detail_idx |-> idx(<<"d", "e", "t", "a", "i", "l", "s", " ", "i", "n", "d", "e", "x">>, {<<"d", "e", "t", "a", "i", "l", " ", "i", "m", "a", "g", "e", " ", "c", "o", "u", "n", "t">>, <<"d", "e", "t", "a", "i", "l", "s", " ", "c", "o", "u", "n", "t">>,
                                                <<"d", "e", "t", "a", "i", "l", "i", "n", "d", "e", "x">>})]

\* _collect_indices(header_row)
collect_indices(impl, header_row) == collect_from_keys(impl, KeysOf(impl, header_row))

OrElse(i, fallback) == IF i >= 1 THEN i ELSE fallback

\* run_step_C2: "colmap[...] if colmap[...] >= 0 else <fallback>".  A create
\* column that is not found stays 0 in shopee_creator and is column A in
\* item_creator.
c2_fallbacks(impl, colmap) ==
    [create_i |-> OrElse(colmap.create, IF impl = "sc" THEN 0 ELSE 1),
     variation_i |-> OrElse(colmap.variation, 2),
     sku_i |-> OrElse(colmap.sku, 3),
     brand_i |-> OrElse(colmap.brand, 4),
     option_i |-> OrElse(colmap.option_eng, 6),
     pname_i |-> OrElse(colmap.prod_name, 8),
     desc_i |-> OrElse(colmap.desc, 10),
     category_i |-> OrElse(colmap.category, 11),
     dcount_i |-> OrElse(colmap.detail_idx, 12)]

c2_indices(impl, header_row) == c2_fallbacks(impl, collect_indices(impl, header_row))

c2_fill_cols(ix) ==
    {ix.variation_i, ix.brand_i, ix.pname_i, ix.desc_i, ix.category_i, ix.dcount_i}

forward_fill_by_group(impl, data, group_idx, fill_cols, kind, create_i) ==
    IF impl = "sc" THEN sc_forward_fill_by_group(data, group_idx, fill_cols, kind, create_i)
    ELSE ic_forward_fill_by_group(data, group_idx, fill_cols, kind, create_i)

is_true(impl, v) == IF impl = "sc" THEN sc_is_true(v) ELSE ic_is_true(v)

(***************************************************************************)
(* TemplateDict                                                            *)
(***************************************************************************)
\* the data rows of the TemplateDict tab that _load_template_dict keeps
TemplateRows(vals) == {i \in 2..Len(vals) : vals[i] # <<>> /\ strip(vals[i][1]) # <<>>}

\* _load_template_dict: top-level key -> headers; a later row replaces an
\* earlier one with the same key
load_template_dict(impl, vals) ==
    LET keys == {header_key(impl, vals[i][1]) : i \in TemplateRows(vals)}
        last(k) == MaxOf({i \in TemplateRows(vals) : header_key(impl, vals[i][1]) = k})
    IN  [k \in keys |-> [j \in 1..(Len(vals[last(k)]) - 1) |-> strip(vals[last(k)][j + 1])]]

\* variant: a tab without a data row loads as an empty dictionary
template_dict_raises_Never(impl, vals) == FALSE

\* _load_template_dict of shopee_creator raises on a tab without a data row
\* and on a dictionary that parses to nothing
template_dict_raises(impl, vals) ==
    impl = "sc" /\ (Len(vals) < 2 \/ TemplateRows(vals) = {})

\* _pick_index_by_candidates, the pass for exact matches: the candidates are
\* tried in their order, each against all the headers
pick_exact(keys, cks) ==
    IF \E c \in 1..Len(cks) : \E i \in 1..Len(keys) : keys[i] = cks[c]
    THEN MinOf({i \in 1..Len(keys) :
                  keys[i] = cks[MinOf({c \in 1..Len(cks) : \E j \in 1..Len(keys) : keys[j] = cks[c]})]})
    ELSE 0

\* the pass for substring matches skips a candidate whose key is empty
pick_partial(keys, cks) ==
    IF \E c \in 1..Len(cks) : cks[c] # <<>> /\ \E i \in 1..Len(keys) : Contains(keys[i], cks[c])
    THEN MinOf({i \in 1..Len(keys) :
                  Contains(keys[i], cks[MinOf({c \in 1..Len(cks) :
                      cks[c] # <<>> /\ \E j \in 1..Len(keys) : Contains(keys[j], cks[c])})])})
    ELSE 0

\* _pick_index_by_candidates(header_row, candidates) of shopee_creator
pick_index_by_candidates(header_row, candidates) ==
    IF pick_exact(KeysOf("sc", header_row), KeysOf("sc", candidates)) # 0
    THEN pick_exact(KeysOf("sc", header_row), KeysOf("sc", candidates))
    ELSE pick_partial(KeysOf("sc", header_row), KeysOf("sc", candidates))

(***************************************************************************)
(* Step C2: Collection -> TEM_OUTPUT                                       *)
(***************************************************************************)
\* variant: the value lands one column to the right of the header found
set_at_Shifted(row, idx, value) ==
    IF idx >= 1 /\ idx < Len(row) THEN [row EXCEPT ![idx + 1] = value] ELSE row

set_at(row, idx, value) == IF idx >= 1 THEN [row EXCEPT ![idx] = value] ELSE row

\* set_if_exists(headers, row, name, value)
set_if_exists(impl, headers, row, name, value) ==
    set_at(row, find_col_index(impl, KeysOf(impl, headers), name, {}), value)

RECURSIVE set_all(_, _, _, _)
\* the set_if_exists calls of run_step_C2, in order
set_all(impl, headers, row, pairs) ==
    IF pairs = <<>> THEN row
    ELSE set_all(impl, headers,
                 set_if_exists(impl, headers, row, Head(pairs)[1], Head(pairs)[2]),
                 Tail(pairs))

c2_mappings(impl, f) ==
    << <<<<"c", "a", "t", "e", "g", "o", "r", "y">>, f.category>>,
       <<<<"p", "r", "o", "d", "u", "c", "t", " ", "n", "a", "m", "e">>, f.pname>>,
       <<<<"p", "r", "o", "d", "u", "c", "t", " ", "d", "e", "s", "c", "r", "i", "p", "t", "i", "o", "n">>, f.desc>>,
       <<<<"v", "a", "r", "i", "a", "t", "i", "o", "n", " ", "i", "n", "t", "e", "g", "r", "a", "t", "i", "o", "n">>, f.variation>>,
       <<<<"v", "a", "r", "i", "a", "t", "i", "o", "n", " ", "n", "a", "m", "e", "1">>, <<"O", "p", "t", "i", "o", "n", "s">>>> >>
    \o (IF impl = "sc"
        THEN << <<<<"p", "a", "r", "e", "n", "t", " ", "s", "k", "u">>, f.variation>>,
                <<<<"v", "a", "r", "i", "a", "t", "i", "o", "n", " ", "i", "n", "t", "e", "g", "r", "a", "t", "i", "o", "n", " ", "n", "o", ".">>, f.variation>> >>
        ELSE <<>>)
    \o << <<<<"o", "p", "t", "i", "o", "n", " ", "f", "o", "r", " ", "v", "a", "r", "i", "a", "t", "i", "o", "n", " ", "1">>, f.opt1>>,
          <<<<"s", "k", "u">>, f.sku>>,
          <<<<"b", "r", "a", "n", "d">>, f.brand>> >>

\* the stripped fields run_step_C2 reads from one forward-filled row
c2_fields(ix, row) ==
    [variation |-> strip(CellAt(row, ix.variation_i)),
     sku |-> strip(CellAt(row, ix.sku_i)),
     brand |-> strip(CellAt(row, ix.brand_i)),
     opt1 |-> strip(CellAt(row, ix.option_i)),
     pname |-> strip(CellAt(row, ix.pname_i)),
     desc |-> strip(CellAt(row, ix.desc_i)),
     category |-> strip(CellAt(row, ix.category_i))]

\* pid = variation or sku or f"ROW{r+1}"; i is the 1-based sheet row
c2_pid(f, i) ==
    IF f.variation # <<>> THEN f.variation
    ELSE IF f.sku # <<>> THEN f.sku
    ELSE <<"R", "O", "W">> \o IntToStr(i)

\* template_dict.get(top_norm), with "no entry" as the empty list: the
\* source tests "if not headers", which is true for both
c2_headers(template_dict, top_norm) ==
    IF top_norm \in DOMAIN template_dict THEN template_dict[top_norm] ELSE <<>>

c2_toplevel_detail(impl, top_raw, top_norm) ==
    IF impl = "sc"
    THEN <<"t", "o", "p", "=">> \o top_raw \o <<" ", "(", "K", "e", "y", ":", " ">> \o top_norm \o <<")">>
    ELSE <<"t", "o", "p", "=">> \o (IF top_raw = <<>> THEN <<"N", "o", "n", "e">> ELSE top_raw)

\* variant: every output row opens a bucket of its own
c2_bucket_add_NoMerge(buckets, top_norm, headers, pid, tem_row) ==
    Append(buckets, [key |-> top_norm, headers |-> headers,
                     pids |-> <<pid>>, rows |-> <<tem_row>>])

\* buckets.setdefault(top_norm, ...) followed by the two appends
c2_bucket_add(buckets, top_norm, headers, pid, tem_row) ==
    LET pos == FirstIn({b \in 1..Len(buckets) : buckets[b].key = top_norm})
    IN  IF pos = 0
        THEN Append(buckets, [key |-> top_norm, headers |-> headers,
                              pids |-> <<pid>>, rows |-> <<tem_row>>])
        ELSE [buckets EXCEPT ![pos].pids = Append(@, pid), ![pos].rows = Append(@, tem_row)]

\* variant: a row without a schema is dropped without a failure record
c2_row_keyed_Silent(impl, st, i, f, top_raw, top_norm, headers) ==
    IF headers = <<>>
    THEN [st EXCEPT !.trace = Append(@, "skipped")]
    ELSE [st EXCEPT
            !.buckets = c2_bucket_add(@, top_norm, headers, c2_pid(f, i),
                                      set_all(impl, headers, [j \in 1..Len(headers) |-> <<>>],
                                              c2_mappings(impl, f))),
            !.trace = Append(@, "created")]

\* the row has a schema: build its output row and add it to its bucket
c2_row_keyed(impl, st, i, f, top_raw, top_norm, headers) ==
    IF headers = <<>>
    THEN [st EXCEPT
            !.failures = Append(@, << <<>>, f.category, f.pname,
                                     <<"T", "E", "M", "P", "L", "A", "T", "E", "_", "T", "O", "P", "L", "E", "V", "E", "L", "_", "N", "O", "T", "_", "F", "O", "U", "N", "D">>,
                                     c2_toplevel_detail(impl, top_raw, top_norm)>>),
            !.trace = Append(@, "TEMPLATE_TOPLEVEL_NOT_FOUND")]
    ELSE [st EXCEPT
            !.buckets = c2_bucket_add(@, top_norm, headers, c2_pid(f, i),
                                      set_all(impl, headers, [j \in 1..Len(headers) |-> <<>>],
                                              c2_mappings(impl, f))),
            !.trace = Append(@, "created")]

c2_row_top(impl, template_dict, st, i, f, top_raw) ==
    c2_row_keyed(impl, st, i, f, top_raw, header_key(impl, top_raw),
                 c2_headers(template_dict, header_key(impl, top_raw)))

c2_row_true(impl, template_dict, st, i, f) ==
    IF f.category = <<>>
    THEN [st EXCEPT
            !.failures = Append(@, <<c2_pid(f, i), <<>>, f.pname,
                                     <<"C", "A", "T", "E", "G", "O", "R", "Y", "_", "M", "I", "S", "S", "I", "N", "G">>, <<"r", "o", "w", "=">> \o IntToStr(i)>>),
            !.trace = Append(@, "CATEGORY_MISSING")]
    ELSE c2_row_top(impl, template_dict, st, i, f, top_of_category(impl, f.category))

\* variant: the create cell is not tested
c2_row_NoCreateTest(impl, ix, template_dict, st, i, row) ==
    c2_row_true(impl, template_dict, st, i, c2_fields(ix, row))

\* One iteration of "for r in range(1, len(ff_vals))".  st.trace records,
\* per data row, which branch the iteration took.
c2_row(impl, ix, template_dict, st, i, row) ==
    IF ~is_true(impl, CellAt(row, ix.create_i))
    THEN [st EXCEPT !.trace = Append(@, "skipped")]
    ELSE c2_row_true(impl, template_dict, st, i, c2_fields(ix, row))

RECURSIVE c2_loop(_, _, _, _, _, _)
c2_loop(impl, ix, template_dict, ff_vals, i, st) ==
    IF i > Len(ff_vals) THEN st
    ELSE c2_loop(impl, ix, template_dict, ff_vals, i + 1,
                 c2_row(impl, ix, template_dict, st, i, ff_vals[i]))

c2_block(pack) ==
    << <<<<"P", "I", "D">>>> \o pack.headers >>
    \o [n \in 1..Len(pack.rows) |-> <<pack.pids[n]>> \o pack.rows[n]]

RECURSIVE c2_out_matrix(_)
\* "for top_key, pack in buckets.items()": header block, then its rows
c2_out_matrix(buckets) ==
    IF buckets = <<>> THEN <<>>
    ELSE c2_block(Head(buckets)) \o c2_out_matrix(Tail(buckets))

C2Nothing ==
    [raised |-> FALSE, ran |-> FALSE, ff_vals |-> <<>>, create_i |-> 0,
     category_i |-> 0, buckets |-> <<>>, failures |-> <<>>, trace |-> <<>>,
     out_matrix |-> <<>>]

c2_result(ix, ff_vals, st) ==
    [raised |-> FALSE, ran |-> TRUE, ff_vals |-> ff_vals,
     create_i |-> ix.create_i, category_i |-> ix.category_i,
     buckets |-> st.buckets, failures |-> st.failures, trace |-> st.trace,
     out_matrix |-> c2_out_matrix(st.buckets)]

c2_with_ff(impl, ix, template_dict, ff_vals) ==
    c2_result(ix, ff_vals,
              c2_loop(impl, ix, template_dict, ff_vals, 2,
                      [buckets |-> <<>>, failures |-> <<>>, trace |-> <<>>]))

\* shopee_creator returns when the create column is not found
c2_with_indices(impl, tdict_vals, coll_vals, ix) ==
    IF ix.create_i = 0 THEN C2Nothing
    ELSE c2_with_ff(impl, ix, load_template_dict(impl, tdict_vals),
                    forward_fill_by_group(impl, coll_vals, ix.variation_i,
                                          c2_fill_cols(ix), "blank", ix.create_i))

\* run_step_C2 up to the point where it writes: what it raised, whether it
\* reached the row loop, and what the loop built
c2_build(impl, tdict_vals, coll_vals) ==
    IF template_dict_raises(impl, tdict_vals) THEN [C2Nothing EXCEPT !.raised = TRUE]
    ELSE IF Len(coll_vals) < 2 THEN C2Nothing
    ELSE c2_with_indices(impl, tdict_vals, coll_vals, c2_indices(impl, coll_vals[1]))

\* variant: clear() leaves the cells as they are
clear_Keep(vals) == vals

\* ws.clear()
clear(vals) == <<>>

\* ws.update(values, "A1:<end>"): the cells of the range take the values,
\* the other cells stay
update_values(vals, values) ==
    get_all_values([r \in 1..MaxOf({Len(vals), Len(values)}) |->
        [c \in 1..MaxOf({Len(CellAt(vals, r)), Len(CellAt(values, r))}) |->
            IF c <= Len(CellAt(values, r)) THEN values[r][c] ELSE vals[r][c]]])

\* "if out_matrix:" clear, resize and update TEM_OUTPUT; otherwise leave it
c2_write_tem(tem_vals, out_matrix) ==
    IF out_matrix # <<>> THEN update_values(clear(tem_vals), out_matrix) ELSE tem_vals

FailuresHeader == << <<"P", "I", "D">>, <<"C", "a", "t", "e", "g", "o", "r", "y">>, <<"N", "a", "m", "e">>, <<"R", "e", "a", "s", "o", "n">>, <<"D", "e", "t", "a", "i", "l">> >>

\* item_creator only: "if failures:" append them below the rows the
\* Failures worksheet already has, creating it with its header if missing
c2_write_failures(exists, vals, failures) ==
    IF failures = <<>> THEN vals
    ELSE get_all_values((IF exists THEN vals ELSE <<FailuresHeader>>) \o failures)

(***************************************************************************)
(* Back-fill steps: each reads TEM_OUTPUT, walks its rows keeping the keys *)
(* of the last header row seen (column B = "Category"), collects a batch   *)
(* of Cell(row, col, value) updates and sends it with update_cells.        *)
(***************************************************************************)
\* (row[1] if len(row) > 1 else "").strip().lower() == "category"
IsCategoryHeader(row) == lower(strip(CellAt(row, 2))) = <<"c", "a", "t", "e", "g", "o", "r", "y">>

\* the last header row above row t, 0 if there is none
HeaderAbove(vals, t) ==
    IF \E h \in 1..(t - 1) : IsCategoryHeader(vals[h])
    THEN MaxOf({h \in 1..(t - 1) : IsCategoryHeader(vals[h])})
    ELSE 0

keys_at(impl, vals, h) == IF h = 0 THEN <<>> ELSE KeysOf(impl, Tail(vals[h]))

\* current_keys / cur_headers when the loop is at row t (<<>>: none yet)
current_keys(impl, vals, t) == keys_at(impl, vals, HeaderAbove(vals, t))

RECURSIVE Flatten(_)
Flatten(seqs) == IF seqs = <<>> THEN <<>> ELSE Head(seqs) \o Flatten(Tail(seqs))

\* the cell of a TEM_OUTPUT row under the header with index idx: the sheet
\* column is one further right because of the PID column
Under(row, idx) == IF idx >= 1 THEN CellAt(row, idx + 1) ELSE <<>>

\* "if updates: tem_ws.update_cells(updates)"
write_updates(vals, updates) == IF updates = <<>> THEN vals ELSE update_cells(vals, updates)

\* one update if the stripped cell differs from val
set_if_differs(row, t, idx, val) ==
    IF strip(Under(row, idx)) # val THEN << <<t, idx + 1, val>> >> ELSE <<>>

(***************************************************************************)
(* C3 (shopee_creator): FDA Registration No.                               *)
(***************************************************************************)
FDA_CODE == <<"1", "0", "-", "1", "-", "9", "9", "9", "9", "9", "9", "9">>

\* column A of the regulated-categories tab, stripped and lowered
c3_target_categories(fda_vals) ==
    {lower(strip(fda_vals[r][1])) : r \in {q \in 1..Len(fda_vals) : strip(CellAt(fda_vals[q], 1)) # <<>>}}

\* variant: the test on the current FDA value is dropped
c3_row_at_Always(row, t, targets, overwrite, col_category_B, col_fda_B) ==
    IF col_category_B = 0 \/ col_fda_B = 0 THEN <<>>
    ELSE IF /\ strip(Under(row, col_category_B)) # <<>>
            /\ lower(strip(Under(row, col_category_B))) \in targets
         THEN << <<t, col_fda_B + 1, FDA_CODE>> >>
         ELSE <<>>

c3_row_at(row, t, targets, overwrite, col_category_B, col_fda_B) ==
    IF col_category_B = 0 \/ col_fda_B = 0 THEN <<>>
    ELSE IF /\ strip(Under(row, col_category_B)) # <<>>
            /\ lower(strip(Under(row, col_category_B))) \in targets
            /\ (strip(Under(row, col_fda_B)) = <<>> \/ overwrite)
         THEN << <<t, col_fda_B + 1, FDA_CODE>> >>
         ELSE <<>>

c3_row(keys, row, t, targets, overwrite) ==
    c3_row_at(row, t, targets, overwrite,
              find_col_index("sc", keys, <<"c", "a", "t", "e", "g", "o", "r", "y">>, {}),
              find_col_index("sc", keys, <<"F", "D", "A", " ", "R", "e", "g", "i", "s", "t", "r", "a", "t", "i", "o", "n", " ", "N", "o", ".">>, {}))

c3_updates(vals, targets, overwrite) ==
    Flatten([t \in 1..Len(vals) |->
        IF IsCategoryHeader(vals[t]) THEN <<>>
        ELSE c3_row(current_keys("sc", vals, t), vals[t], t, targets, overwrite)])

(***************************************************************************)
(* C4 (shopee_creator): prices by parent SKU, from the Collection sheet    *)
(***************************************************************************)
c4_sc_coll_cols(coll_keys) ==
    [parent |-> find_col_index("sc", coll_keys, <<"p", "a", "r", "e", "n", "t", " ", "s", "k", "u">>,
                    {<<"p", "a", "r", "e", "n", "t", "s", "k", "u">>, <<"v", "a", "r", "i", "a", "t", "i", "o", "n">>, <<"v", "a", "r", "i", "a", "t", "i", "o", "n", "i", "n", "t", "e", "g", "r", "a", "t", "i", "o", "n", "n", "o">>,
                     <<"v", "a", "r", "i", "a", "t", "i", "o", "n", " ", "n", "o">>, <<"v", "a", "r", "i", "a", "t", "i", "o", "n", " ", "c", "o", "d", "e">>}),
     price |-> find_col_index("sc", coll_keys, <<"p", "r", "i", "c", "e">>,
                    {<<"s", "a", "l", "e", " ", "p", "r", "i", "c", "e">>, <<"s", "e", "l", "l", "i", "n", "g", " ", "p", "r", "i", "c", "e">>, <<HANGUL, HANGUL, HANGUL>>}),
     orig |-> find_col_index("sc", coll_keys, <<"o", "r", "i", "g", "i", "n", "a", "l", " ", "p", "r", "i", "c", "e">>,
                    {<<"l", "i", "s", "t", " ", "p", "r", "i", "c", "e">>, <<"m", "s", "r", "p">>, <<HANGUL, HANGUL>>, <<"o", "r", "i", "g", "i", "n", "a", "l", "p", "r", "i", "c", "e">>})]

\* the last non-blank value of column col among the rows of parent p
c4_sc_last(coll_vals, parent_col, col, p) ==
    IF col = 0 \/ ~\E r \in 2..Len(coll_vals) :
                     strip(CellAt(coll_vals[r], parent_col)) = p /\ strip(CellAt(coll_vals[r], col)) # <<>>
    THEN <<>>
    ELSE strip(coll_vals[MaxOf({r \in 2..Len(coll_vals) :
                     strip(CellAt(coll_vals[r], parent_col)) = p
                     /\ strip(CellAt(coll_vals[r], col)) # <<>>})][col])

\* price_by_parent; a missing "price" / "original" entry is the empty string
c4_sc_price_by_parent(coll_vals, cx) ==
    [p \in {strip(CellAt(coll_vals[r], cx.parent)) : r \in 2..Len(coll_vals)} \ {<<>>} |->
        [price |-> c4_sc_last(coll_vals, cx.parent, cx.price, p),
         original |-> c4_sc_last(coll_vals, cx.parent, cx.orig, p)]]

c4_sc_row_rec(row, t, rec, idx_price_B, idx_orig_B) ==
    (IF idx_price_B # 0 /\ rec.price # <<>>
     THEN set_if_differs(row, t, idx_price_B, rec.price) ELSE <<>>)
    \o (IF idx_orig_B # 0 /\ rec.original # <<>>
        THEN set_if_differs(row, t, idx_orig_B, rec.original) ELSE <<>>)

c4_sc_row_parent(keys, row, t, pbp, parent) ==
    IF parent = <<>> \/ parent \notin DOMAIN pbp THEN <<>>
    ELSE c4_sc_row_rec(row, t, pbp[parent],
            find_col_index("sc", keys, <<"p", "r", "i", "c", "e">>, {<<"s", "e", "l", "l", "i", "n", "g", " ", "p", "r", "i", "c", "e">>, <<"s", "a", "l", "e", " ", "p", "r", "i", "c", "e">>}),
            find_col_index("sc", keys, <<"o", "r", "i", "g", "i", "n", "a", "l", " ", "p", "r", "i", "c", "e">>, {<<"l", "i", "s", "t", " ", "p", "r", "i", "c", "e">>, <<"m", "s", "r", "p">>}))

\* lookup key: Parent SKU first, Variation Integration No. otherwise
c4_sc_parent(row, idx_parent_B, idx_varint_B) ==
    IF strip(Under(row, idx_parent_B)) # <<>> THEN strip(Under(row, idx_parent_B))
    ELSE strip(Under(row, idx_varint_B))

c4_sc_row(keys, row, t, pbp) ==
    IF keys = <<>> THEN <<>>
    ELSE c4_sc_row_parent(keys, row, t, pbp,
            c4_sc_parent(row,
                find_col_index("sc", keys, <<"p", "a", "r", "e", "n", "t", " ", "s", "k", "u">>, {}),
                find_col_index("sc", keys, <<"v", "a", "r", "i", "a", "t", "i", "o", "n", " ", "i", "n", "t", "e", "g", "r", "a", "t", "i", "o", "n", " ", "n", "o", ".">>,
                               {<<"v", "a", "r", "i", "a", "t", "i", "o", "n", " ", "i", "n", "t", "e", "g", "r", "a", "t", "i", "o", "n">>})))

c4_sc_scan(vals, pbp) ==
    Flatten([t \in 1..Len(vals) |->
        IF IsCategoryHeader(vals[t]) THEN <<>>
        ELSE c4_sc_row(current_keys("sc", vals, t), vals[t], t, pbp)])

c4_sc_with_cols(vals, coll_vals, cx) ==
    IF cx.parent = 0 \/ (cx.price = 0 /\ cx.orig = 0) THEN <<>>
    ELSE c4_sc_scan(vals, [p \in {q \in DOMAIN c4_sc_price_by_parent(coll_vals, cx) :
                                    c4_sc_price_by_parent(coll_vals, cx)[q].price # <<>>
                                    \/ c4_sc_price_by_parent(coll_vals, cx)[q].original # <<>>}
                           |-> c4_sc_price_by_parent(coll_vals, cx)[p]])

\* the update batch of run_step_C4_prices (shopee_creator)
c4_sc_updates(vals, coll_vals) ==
    IF vals = <<>> \/ coll_vals = <<>> THEN <<>>
    ELSE c4_sc_with_cols(vals, coll_vals, c4_sc_coll_cols(KeysOf("sc", coll_vals[1])))

(***************************************************************************)
(* C4 (item_creator): prices by SKU, from the MARGIN sheet                 *)
(***************************************************************************)
\* sku -> the value in column val_col of the last MARGIN row that has both
margin_map(mg_vals, sku_col, val_col) ==
    [s \in {strip(CellAt(mg_vals[r], sku_col)) :
              r \in {q \in 2..Len(mg_vals) : strip(CellAt(mg_vals[q], sku_col)) # <<>>
                                            /\ strip(CellAt(mg_vals[q], val_col)) # <<>>}} |->
        strip(mg_vals[MaxOf({q \in 2..Len(mg_vals) :
                  strip(CellAt(mg_vals[q], sku_col)) = s
                  /\ strip(CellAt(mg_vals[q], val_col)) # <<>>})][val_col])]

c4_ic_row_at(row, t, sku_to_price, idx_t_sku, idx_t_price) ==
    IF idx_t_sku = 0 \/ idx_t_price = 0 THEN <<>>
    ELSE IF strip(Under(row, idx_t_sku)) \notin DOMAIN sku_to_price THEN <<>>
    ELSE set_if_differs(row, t, idx_t_price, sku_to_price[strip(Under(row, idx_t_sku))])

c4_ic_row(keys, row, t, sku_to_price) ==
    c4_ic_row_at(row, t, sku_to_price,
                 find_col_index("ic", keys, <<"s", "k", "u">>, {}),
                 find_col_index("ic", keys, <<"s", "k", "u", " ", "p", "r", "i", "c", "e">>,
                                {<<"p", "r", "i", "c", "e">>, <<"s", "e", "l", "l", "i", "n", "g", " ", "p", "r", "i", "c", "e">>, <<"s", "e", "l", "l", " ", "p", "r", "i", "c", "e">>}))

c4_ic_scan(vals, sku_to_price) ==
    Flatten([t \in 1..Len(vals) |->
        IF IsCategoryHeader(vals[t]) THEN <<>>
        ELSE c4_ic_row(current_keys("ic", vals, t), vals[t], t, sku_to_price)])

c4_ic_with_cols(vals, mg_vals, idx_mg_sku, idx_mg_price) ==
    IF idx_mg_sku = 0 \/ idx_mg_price = 0 THEN <<>>
    ELSE c4_ic_scan(vals, margin_map(mg_vals, idx_mg_sku, idx_mg_price))

\* the update batch of run_step_C4_prices (item_creator)
c4_ic_updates(vals, mg_vals) ==
    IF vals = <<>> \/ Len(mg_vals) < 2 THEN <<>>
    ELSE c4_ic_with_cols(vals, mg_vals,
            find_col_index("ic", KeysOf("ic", mg_vals[1]), <<"s", "k", "u">>, {<<"s", "e", "l", "l", "e", "r", "_", "s", "k", "u">>}),
            find_col_index("ic", KeysOf("ic", mg_vals[1]), <<HANGUL, HANGUL, HANGUL, HANGUL>>,
                {<<"c", "o", "n", "s", "u", "m", "e", "r", " ", "p", "r", "i", "c", "e">>, <<"c", "o", "n", "s", "u", "m", "e", "r", "p", "r", "i", "c", "e">>, <<"p", "r", "i", "c", "e">>, <<"l", "i", "s", "t", " ", "p", "r", "i", "c", "e">>,
                 <<"s", "e", "l", "l", "i", "n", "g", " ", "p", "r", "i", "c", "e">>, <<"s", "e", "l", "l", " ", "p", "r", "i", "c", "e">>}))

c4_updates(impl, vals, coll_vals, mg_vals) ==
    IF impl = "sc" THEN c4_sc_updates(vals, coll_vals) ELSE c4_ic_updates(vals, mg_vals)

(***************************************************************************)
(* C6: stock, brand and weight                                             *)
(***************************************************************************)
\* a variant that writes the stock cell without comparing it first
c6_row_sku_Unconditional(row, t, sku_to_weight, sku, idx_t_stock, idx_t_weight, idx_t_brand) ==
    (IF idx_t_stock # 0 THEN << <<t, idx_t_stock + 1, <<"1", "0", "0", "0">>>> >> ELSE <<>>)
    \o (IF idx_t_brand # 0 THEN set_if_differs(row, t, idx_t_brand, <<"0">>) ELSE <<>>)
    \o (IF idx_t_weight # 0 /\ sku \in DOMAIN sku_to_weight
        THEN set_if_differs(row, t, idx_t_weight, sku_to_weight[sku]) ELSE <<>>)

c6_row_sku(row, t, sku_to_weight, sku, idx_t_stock, idx_t_weight, idx_t_brand) ==
    (IF idx_t_stock # 0 THEN set_if_differs(row, t, idx_t_stock, <<"1", "0", "0", "0">>) ELSE <<>>)
    \o (IF idx_t_brand # 0 THEN set_if_differs(row, t, idx_t_brand, <<"0">>) ELSE <<>>)
    \o (IF idx_t_weight # 0 /\ sku \in DOMAIN sku_to_weight
        THEN set_if_differs(row, t, idx_t_weight, sku_to_weight[sku]) ELSE <<>>)

\* the rows the loop does not skip: under a header with a SKU column and
\* with a non-blank SKU
c6_has_sku(impl, keys, row) ==
    /\ find_col_index(impl, keys, <<"s", "k", "u">>, {}) # 0
    /\ strip(Under(row, find_col_index(impl, keys, <<"s", "k", "u">>, {}))) # <<>>

c6_row(impl, keys, row, t, sku_to_weight) ==
    IF ~c6_has_sku(impl, keys, row) THEN <<>>
    ELSE c6_row_sku(row, t, sku_to_weight,
                    strip(Under(row, find_col_index(impl, keys, <<"s", "k", "u">>, {}))),
                    find_col_index(impl, keys, <<"s", "t", "o", "c", "k">>, {}),
                    find_col_index(impl, keys, <<"w", "e", "i", "g", "h", "t">>, {}),
                    find_col_index(impl, keys, <<"b", "r", "a", "n", "d">>, {}))

c6_scan(impl, vals, sku_to_weight) ==
    Flatten([t \in 1..Len(vals) |->
        IF IsCategoryHeader(vals[t]) THEN <<>>
        ELSE c6_row(impl, current_keys(impl, vals, t), vals[t], t, sku_to_weight)])

c6_weights_at(mg_vals, idx_mg_sku, idx_mg_weight) ==
    IF idx_mg_sku = 0 \/ idx_mg_weight = 0 THEN <<>>
    ELSE margin_map(mg_vals, idx_mg_sku, idx_mg_weight)

\* sku_to_weight of item_creator (an empty function when MARGIN has no data)
c6_ic_weights(mg_vals) ==
    IF Len(mg_vals) < 2 THEN <<>>
    ELSE c6_weights_at(mg_vals,
            find_col_index("ic", KeysOf("ic", mg_vals[1]), <<"s", "k", "u">>, {<<"s", "e", "l", "l", "e", "r", "_", "s", "k", "u">>}),
            find_col_index("ic", KeysOf("ic", mg_vals[1]), <<"w", "e", "i", "g", "h", "t">>,
                           {<<HANGUL, HANGUL>>, <<"f">>}))

\* the update batch of run_step_C6_stock_weight_brand (item_creator)
c6_ic_updates(vals, mg_vals) == c6_scan("ic", vals, c6_ic_weights(mg_vals))

\* shopee_creator: the assignment of idx_t_days stands after the "continue"
\* of the header branch and never runs, so the first row the loop does not
\* skip reads an unbound local and the step raises before it writes
c6_sc_raises(vals) ==
    \E t \in 1..Len(vals) :
        ~IsCategoryHeader(vals[t]) /\ c6_has_sku("sc", current_keys("sc", vals, t), vals[t])

(***************************************************************************)
(* C5 (item_creator): image URLs                                           *)
(***************************************************************************)
RECURSIVE rstrip_slash(_)
rstrip_slash(s) ==
    IF s # <<>> /\ s[Len(s)] = "/" THEN rstrip_slash(SubSeq(s, 1, Len(s) - 1)) ELSE s

RECURSIVE lstrip_slash(_)
lstrip_slash(s) == IF s # <<>> /\ Head(s) = "/" THEN lstrip_slash(Tail(s)) ELSE s

\* join_url(base, part) with one part
join_url(base, part) ==
    IF strip(base) = <<>> THEN <<>>
    ELSE rstrip_slash(strip(base))
         \o (IF strip(part) = <<>> THEN <<>>
             ELSE <<"/">> \o rstrip_slash(lstrip_slash(strip(part))))

DigitVal(c) == CHOOSE n \in 0..9 : IntToStr(n) = <<c>>

RECURSIVE DigitsToInt(_)
DigitsToInt(s) ==
    IF s = <<>> THEN 0 ELSE DigitsToInt(SubSeq(s, 1, Len(s) - 1)) * 10 + DigitVal(s[Len(s)])

AllDigits(s) == s # <<>> /\ \A i \in 1..Len(s) : IsDigit(s[i])

\* int(text) for decimal text with an optional sign: <<parsed, value>>
py_int(s) ==
    IF AllDigits(s) THEN <<TRUE, DigitsToInt(s)>>
    ELSE IF s # <<>> /\ Head(s) = "-" /\ AllDigits(Tail(s)) THEN <<TRUE, 0 - DigitsToInt(Tail(s))>>
    ELSE IF s # <<>> /\ Head(s) = "+" /\ AllDigits(Tail(s)) THEN <<TRUE, DigitsToInt(Tail(s))>>
    ELSE <<FALSE, 0>>

clamp(lo, hi, n) == IF n < lo THEN lo ELSE IF n > hi THEN hi ELSE n

\* cnt = max(1, min(8, int(cell.strip() or "8"))), 8 when int() raises
c5_ic_count(cell) ==
    IF strip(cell) = <<>> \/ ~py_int(strip(cell))[1] THEN 8
    ELSE clamp(1, 8, py_int(strip(cell))[2])

\* the create-true rows of the forward-filled Collection
c5_ic_rows(ff_vals, ix) == {r \in 2..Len(ff_vals) : ic_is_true(CellAt(ff_vals[r], ix.create_i))}

\* sku_to_var: the last create-true row of a SKU decides
c5_ic_sku_to_var(ff_vals, ix, rows) ==
    [s \in {strip(CellAt(ff_vals[r], ix.sku_i)) : r \in rows} \ {<<>>} |->
        strip(CellAt(ff_vals[MaxOf({r \in rows : strip(CellAt(ff_vals[r], ix.sku_i)) = s})],
                     ix.variation_i))]

\* var_to_count: the first create-true row of a variation decides
c5_ic_var_to_count(ff_vals, ix, rows) ==
    [v \in {strip(CellAt(ff_vals[r], ix.variation_i)) : r \in rows} \ {<<>>} |->
        c5_ic_count(CellAt(ff_vals[MinOf({r \in rows :
                        strip(CellAt(ff_vals[r], ix.variation_i)) = v})], ix.dcount_i))]

c5_ic_maps_ff(ff_vals, ix) ==
    [sku_to_var |-> c5_ic_sku_to_var(ff_vals, ix, c5_ic_rows(ff_vals, ix)),
     var_to_count |-> c5_ic_var_to_count(ff_vals, ix, c5_ic_rows(ff_vals, ix))]

c5_ic_maps_ix(coll_vals, ix) ==
    c5_ic_maps_ff(ic_forward_fill_by_group(coll_vals, ix.variation_i,
                                           {ix.variation_i, ix.dcount_i},
                                           "blank_or_not_create", ix.create_i), ix)

c5_ic_maps(coll_vals) ==
    IF Len(coll_vals) < 2 THEN [sku_to_var |-> <<>>, var_to_count |-> <<>>]
    ELSE c5_ic_maps_ix(coll_vals, c2_indices("ic", coll_vals[1]))

c5_ic_item(keys, row, t, k, base_key, count) ==
    IF find_col_index("ic", keys, <<"i", "t", "e", "m", "i", "m", "a", "g", "e">> \o IntToStr(k), {}) = 0 THEN <<>>
    ELSE IF Under(row, find_col_index("ic", keys, <<"i", "t", "e", "m", "i", "m", "a", "g", "e">> \o IntToStr(k), {}))
              # (IF k <= count THEN base_key \o <<"_", "D">> \o IntToStr(k) ELSE <<>>)
         THEN << <<t, find_col_index("ic", keys, <<"i", "t", "e", "m", "i", "m", "a", "g", "e">> \o IntToStr(k), {}) + 1,
                   IF k <= count THEN base_key \o <<"_", "D">> \o IntToStr(k) ELSE <<>>>> >>
         ELSE <<>>

c5_ic_put(row, t, idx, val) ==
    IF Under(row, idx) # val THEN << <<t, idx + 1, val>> >> ELSE <<>>

c5_ic_row_key(keys, row, t, cfg, sku, var, key, count, idx_varno, idx_optimg, idx_cover) ==
    (IF idx_varno # 0 /\ var # <<>> THEN c5_ic_put(row, t, idx_varno, var) ELSE <<>>)
    \o (IF idx_optimg # 0 /\ sku # <<>>
        THEN c5_ic_put(row, t, idx_optimg, join_url(cfg.option_base_url, sku)) ELSE <<>>)
    \o (IF idx_cover # 0 /\ key # <<>>
        THEN c5_ic_put(row, t, idx_cover,
                       join_url(cfg.cover_base_url, key)
                       \o (IF cfg.shop_code # <<>> THEN <<"_", "C", "_">> \o cfg.shop_code ELSE <<>>)
                       \o <<".", "j", "p", "g">>)
        ELSE <<>>)
    \o Flatten([k \in 1..8 |->
                  c5_ic_item(keys, row, t, k, join_url(cfg.details_base_url, key), count)])

c5_ic_row_var(keys, row, t, cfg, maps, sku, var) ==
    c5_ic_row_key(keys, row, t, cfg, sku, var,
                  IF var # <<>> THEN var ELSE sku,
                  IF var \in DOMAIN maps.var_to_count THEN maps.var_to_count[var] ELSE 8,
                  find_col_index("ic", keys, <<"v", "a", "r", "i", "a", "t", "i", "o", "n", "i", "n", "t", "e", "g", "r", "a", "t", "i", "o", "n">>, {}),
                  find_col_index("ic", keys, <<"i", "m", "a", "g", "e", "p", "e", "r", "v", "a", "r", "i", "a", "t", "i", "o", "n">>, {}),
                  find_col_index("ic", keys, <<"c", "o", "v", "e", "r", "i", "m", "a", "g", "e">>, {}))

c5_ic_row_sku(keys, row, t, cfg, maps, sku) ==
    c5_ic_row_var(keys, row, t, cfg, maps, sku,
                  IF sku \in DOMAIN maps.sku_to_var THEN maps.sku_to_var[sku]
                  ELSE strip(Under(row, find_col_index("ic", keys, <<"v", "a", "r", "i", "a", "t", "i", "o", "n", "i", "n", "t", "e", "g", "r", "a", "t", "i", "o", "n">>, {}))))

c5_ic_row(keys, row, t, cfg, maps) ==
    IF keys = <<>> THEN <<>>
    ELSE c5_ic_row_sku(keys, row, t, cfg, maps,
                       strip(Under(row, find_col_index("ic", keys, <<"s", "k", "u">>, {}))))

c5_ic_scan(vals, cfg, maps) ==
    Flatten([t \in 1..Len(vals) |->
        IF IsCategoryHeader(vals[t]) THEN <<>>
        ELSE c5_ic_row(current_keys("ic", vals, t), vals[t], t, cfg, maps)])

\* the update batch of run_step_C5_images (item_creator)
c5_ic_updates(vals, coll_vals, cfg) ==
    IF vals = <<>> THEN <<>> ELSE c5_ic_scan(vals, cfg, c5_ic_maps(coll_vals))

(***************************************************************************)
(* C7 (shopee_creator, run on its own after the pipeline): mandatory       *)
(* defaults.  The colouring of mandatory columns is a formatting request   *)
(* on TEM_OUTPUT's sheetId and changes no cell value.                      *)
(***************************************************************************)
RECURSIVE replace(_, _, _)
\* str.replace(old, new), old not empty
replace(s, old, new) ==
    IF Len(s) < Len(old) THEN s
    ELSE IF SubSeq(s, 1, Len(old)) = old THEN new \o replace(Drop(s, Len(old)), old, new)
    ELSE <<Head(s)>> \o replace(Tail(s), old, new)

RECURSIVE split_slash(_)
\* x.split("/")
split_slash(s) ==
    IF IndexOf(s, "/") = 0 THEN <<s>>
    ELSE <<SubSeq(s, 1, IndexOf(s, "/") - 1)>> \o split_slash(Drop(s, IndexOf(s, "/")))

RECURSIVE join_slash(_)
\* "/".join(segs)
join_slash(segs) ==
    IF segs = <<>> THEN <<>>
    ELSE IF Len(segs) = 1 THEN segs[1]
    ELSE segs[1] \o <<"/">> \o join_slash(Tail(segs))

NonEmptyStr(s) == s # <<>>

\* the four replace() calls of _norm_cat_for_match, in order
norm_cat_replaced(x) ==
    replace(replace(replace(replace(x, <<" ", "-", " ">>, <<"/">>), <<"-">>, <<"/">>), <<"\\">>, <<"/">>), <<" ", "/", " ">>, <<"/">>)

\* _norm_cat_for_match; the join of non-empty segments holds no "//", so the
\* closing while loop changes nothing
norm_cat_for_match(s) ==
    IF s = <<>> THEN <<>>
    ELSE join_slash(SelectSeq([i \in 1..Len(split_slash(norm_cat_replaced(lower(strip(s))))) |->
                                  strip(split_slash(norm_cat_replaced(lower(strip(s))))[i])],
                              NonEmptyStr))

EndsWith(a, b) == Len(b) <= Len(a) /\ SubSeq(a, Len(a) - Len(b) + 1, Len(a)) = b

c7_entries_at(vals, c_idx, a_idx, d_idx) ==
    IF c_idx = 0 \/ a_idx = 0 \/ d_idx = 0 THEN <<>>
    ELSE Flatten([r \in 1..(Len(vals) - 1) |->
            IF strip(CellAt(vals[r + 1], c_idx)) # <<>> /\ strip(CellAt(vals[r + 1], a_idx)) # <<>>
            THEN << [key |-> norm_cat_for_match(strip(CellAt(vals[r + 1], c_idx))),
                     attr |-> sc_header_key(strip(CellAt(vals[r + 1], a_idx))),
                     dval |-> strip(CellAt(vals[r + 1], d_idx))] >>
            ELSE <<>>])

c7_entries_keys(vals, keys) ==
    c7_entries_at(vals, find_col_index("sc", keys, <<"c", "a", "t", "e", "g", "o", "r", "y">>, {}),
                  find_col_index("sc", keys, <<"a", "t", "t", "r", "i", "b", "u", "t", "e">>, {<<"a", "t", "t", "r">>, <<"p", "r", "o", "p", "e", "r", "t", "y">>}),
                  find_col_index("sc", keys, <<"d", "e", "f", "a", "u", "l", "t", "v", "a", "l", "u", "e">>, {<<"d", "e", "f", "a", "u", "l", "t">>}))

\* _read_mandatory_defaults_from_ref for one MandatoryDefaults_ tab: the
\* rows that enter defaults_map, in sheet order
c7_entries(vals) == IF vals = <<>> THEN <<>> ELSE c7_entries_keys(vals, KeysOf("sc", vals[1]))

\* _find_defaults / _find_mand on the normalised category: the row of the
\* first key that is equal, else of the first key that ends with it or is
\* its ending, else of the first key that is a run of its segments (0: none);
\* the keys of a dict are in the order of their first row
c7_find_nc(entries, nc) ==
    IF \E e \in 1..Len(entries) : entries[e].key = nc
    THEN MinOf({e \in 1..Len(entries) : entries[e].key = nc})
    ELSE IF \E e \in 1..Len(entries) : EndsWith(nc, entries[e].key) \/ EndsWith(entries[e].key, nc)
    THEN MinOf({e \in 1..Len(entries) : EndsWith(nc, entries[e].key) \/ EndsWith(entries[e].key, nc)})
    ELSE IF \E e \in 1..Len(entries) :
                Contains(<<"/">> \o nc \o <<"/">>, <<"/">> \o entries[e].key \o <<"/">>)
    THEN MinOf({e \in 1..Len(entries) :
                Contains(<<"/">> \o nc \o <<"/">>, <<"/">> \o entries[e].key \o <<"/">>)})
    ELSE 0

c7_find(entries, cat_raw) ==
    IF cat_raw = <<>> THEN 0 ELSE c7_find_nc(entries, norm_cat_for_match(cat_raw))

\* defaults.items(): each attribute once, at its first row, with its last value
c7_items(entries, key) ==
    Flatten([e \in 1..Len(entries) |->
        IF entries[e].key = key
           /\ ~\E d \in 1..(e - 1) : entries[d].key = key /\ entries[d].attr = entries[e].attr
        THEN << [attr |-> entries[e].attr,
                 dval |-> entries[MaxOf({d \in e..Len(entries) :
                              entries[d].key = key /\ entries[d].attr = entries[e].attr})].dval] >>
        ELSE <<>>])

c7_item(row, t, overwrite, dval, j) ==
    IF dval = <<>> \/ j = 0 THEN <<>>
    ELSE IF strip(Under(row, j)) = <<>> \/ overwrite THEN << <<t, j + 1, dval>> >>
    ELSE <<>>

c7_row_items(keys, row, t, overwrite, items) ==
    Flatten([k \in 1..Len(items) |->
        c7_item(row, t, overwrite, items[k].dval, find_col_index("sc", keys, items[k].attr, {}))])

c7_row_found(keys, row, t, entries, overwrite, e) ==
    IF e = 0 THEN <<>>
    ELSE c7_row_items(keys, row, t, overwrite, c7_items(entries, entries[e].key))

\* rows without a header above them, a PID or a category are passed over
c7_is_item(keys, row) ==
    keys # <<>> /\ strip(CellAt(row, 1)) # <<>> /\ strip(CellAt(row, 2)) # <<>>

c7_row(keys, row, t, entries, overwrite) ==
    IF ~c7_is_item(keys, row) THEN <<>>
    ELSE c7_row_found(keys, row, t, entries, overwrite, c7_find(entries, strip(CellAt(row, 2))))

c7_updates(vals, entries, overwrite) ==
    Flatten([t \in 1..Len(vals) |->
        IF IsCategoryHeader(vals[t]) THEN <<>>
        ELSE c7_row(current_keys("sc", vals, t), vals[t], t, entries, overwrite)])

\* _read_category_mandatory_flags: the rows of cat props that enter
\* catprops_map, each with the header keys of its "mandatory" cells
c7_mand_entries(vals) ==
    IF vals = <<>> THEN <<>>
    ELSE Flatten([r \in 1..(Len(vals) - 1) |->
            IF strip(CellAt(vals[r + 1], 1)) # <<>>
               /\ \E j \in 1..Len(vals[r + 1]) : lower(strip(vals[r + 1][j])) = <<"m", "a", "n", "d", "a", "t", "o", "r", "y">>
            THEN << [key |-> norm_cat_for_match(strip(vals[r + 1][1])),
                     mand |-> {sc_header_key(CellAt(vals[1], j)) :
                                  j \in {i \in 1..Len(vals[r + 1]) :
                                            lower(strip(vals[r + 1][i])) = <<"m", "a", "n", "d", "a", "t", "o", "r", "y">>}}] >>
            ELSE <<>>])

\* the flags of a key are those of its last row
c7_mand_of(entries, e) ==
    IF e = 0 THEN {}
    ELSE entries[MaxOf({d \in 1..Len(entries) : entries[d].key = entries[e].key})].mand

c7_row_coloured(keys, row, entries) ==
    /\ c7_is_item(keys, row)
    /\ \E attr_norm \in c7_mand_of(entries, c7_find(entries, strip(CellAt(row, 2)))) :
          find_col_index("sc", keys, attr_norm, {}) # 0

\* some cell is to be coloured: the formatting request is sent
c7_requests(vals, entries) ==
    \E t \in 1..Len(vals) :
        ~IsCategoryHeader(vals[t]) /\ c7_row_coloured(current_keys("sc", vals, t), vals[t], entries)

(***************************************************************************)
(* C5 (shopee_creator): image URLs, computed on the whole value matrix     *)
(***************************************************************************)
WANT ==
    [variation |-> {<<"v", "a", "r", "i", "a", "t", "i", "o", "n", "i", "n", "t", "e", "g", "r", "a", "t", "i", "o", "n", "n", "o">>, <<"v", "a", "r", "i", "a", "t", "i", "o", "n", "i", "n", "t", "e", "g", "r", "a", "t", "i", "o", "n", "n", "o", ".">>, <<"v", "a", "r", "i", "a", "t", "i", "o", "n", "n", "o">>,
                    <<"v", "a", "r", "i", "a", "t", "i", "o", "n", "i", "n", "t", "e", "g", "r", "a", "t", "i", "o", "n">>, <<"v", "a", "r", "i", "a", "t", "i", "o", "n">>, <<"v", "a", "r", "i", "a", "t", "i", "o", "n", " ", "i", "n", "t", "e", "g", "r", "a", "t", "i", "o", "n", " ", "n", "o">>,
                    <<"v", "a", "r", "i", "a", "t", "i", "o", "n", " ", "i", "n", "t", "e", "g", "r", "a", "t", "i", "o", "n">>, <<"v", "a", "r", "i", "a", "t", "i", "o", "n", " ", "c", "o", "d", "e">>, <<"v", "a", "r", "i", "a", "t", "i", "o", "n", " ", "i", "d">>},
     sku |-> {<<"s", "k", "u">>, <<"s", "e", "l", "l", "e", "r", "_", "s", "k", "u">>, <<"s", "e", "l", "l", "e", "r", " ", "s", "k", "u">>, <<"i", "t", "e", "m", " ", "s", "k", "u">>},
     cover |-> {<<"c", "o", "v", "e", "r", "i", "m", "a", "g", "e">>, <<"c", "o", "v", "e", "r", " ", "i", "m", "a", "g", "e">>, <<"c", "o", "v", "e", "r", "i", "m", "a", "g", "e", "u", "r", "l">>, <<"c", "o", "v", "e", "r", " ", "i", "m", "a", "g", "e", " ", "u", "r", "l">>,
                <<"c", "o", "v", "e", "r">>, <<"c", "o", "v", "e", "r", " ", "u", "r", "l">>},
     ipv |-> {<<"i", "m", "a", "g", "e", "p", "e", "r", "v", "a", "r", "i", "a", "t", "i", "o", "n">>, <<"i", "m", "a", "g", "e", " ", "p", "e", "r", " ", "v", "a", "r", "i", "a", "t", "i", "o", "n">>, <<"i", "m", "a", "g", "e", "u", "r", "l", "p", "e", "r", "v", "a", "r", "i", "a", "t", "i", "o", "n">>,
              <<"i", "m", "a", "g", "e", " ", "u", "r", "l", " ", "p", "e", "r", " ", "v", "a", "r", "i", "a", "t", "i", "o", "n">>, <<"i", "p", "v">>, <<"v", "a", "r", "i", "a", "t", "i", "o", "n", " ", "i", "m", "a", "g", "e">>,
              <<"i", "m", "a", "g", "e", " ", "e", "a", "c", "h", " ", "v", "a", "r", "i", "a", "t", "i", "o", "n">>}]

\* _try_parse_row_as_header on the keys of row[base_offset_guess:]: the
\* index of each wanted column among them, 0 where the source has no entry
c5_sc_ix_map(keys) ==
    [variation |-> find_in_keys(keys, WANT.variation),
     sku |-> find_in_keys(keys, WANT.sku),
     cover |-> find_in_keys(keys, WANT.cover),
     ipv |-> find_in_keys(keys, WANT.ipv),
     item |-> [n \in 1..8 |->
                 find_in_keys(keys, {sc_header_key(<<"i", "t", "e", "m", " ", "i", "m", "a", "g", "e", " ">> \o IntToStr(n))})]]

\* has_any_image and has_key_for_fill
c5_sc_is_header(ix_map) ==
    /\ ix_map.cover # 0 \/ ix_map.ipv # 0 \/ \E n \in 1..8 : ix_map.item[n] # 0
    /\ ix_map.variation # 0 \/ ix_map.sku # 0

\* the row parses as a header when read from position base_offset_guess on
c5_sc_parses(row, base_offset_guess) ==
    /\ Len(row) > base_offset_guess
    /\ c5_sc_is_header(c5_sc_ix_map(KeysOf("sc", SubSeq(row, base_offset_guess + 1, Len(row)))))

c5_sc_header_at(vals, r, base_offset) ==
    [hdr_row |-> r, base_offset |-> base_offset,
     ix_map |-> c5_sc_ix_map(KeysOf("sc", SubSeq(vals[r], base_offset + 1, Len(vals[r]))))]

\* _find_header_row_and_offset: the first row that starts with PID and
\* parses, else the first with Category in column B, else the first row that
\* parses from column A; hdr_row = 0 stands for the RuntimeError
c5_sc_find_header(vals, by_pid, by_category, by_any) ==
    IF by_pid # {} THEN c5_sc_header_at(vals, MinOf(by_pid), 1)
    ELSE IF by_category # {} THEN c5_sc_header_at(vals, MinOf(by_category), 1)
    ELSE IF by_any # {} THEN c5_sc_header_at(vals, MinOf(by_any), 0)
    ELSE [hdr_row |-> 0, base_offset |-> 0, ix_map |-> c5_sc_ix_map(<<>>)]

find_header_row_and_offset(vals) ==
    c5_sc_find_header(vals,
        {r \in 1..Len(vals) : /\ vals[r] # <<>>
                              /\ sc_header_key(vals[r][1]) = <<"p", "i", "d">>
                              /\ c5_sc_parses(vals[r], 1)},
        {r \in 1..Len(vals) : /\ Len(vals[r]) > 1
                              /\ sc_header_key(vals[r][2]) = <<"c", "a", "t", "e", "g", "o", "r", "y">>
                              /\ c5_sc_parses(vals[r], 1)},
        {r \in 1..Len(vals) : vals[r] # <<>> /\ c5_sc_parses(vals[r], 0)})

\* int(float(text)) for an optional sign, digits and an optional fraction;
\* any other text stands for the ValueError: <<parsed, value>>
py_int_float(s) ==
    IF py_int(s)[1] THEN py_int(s)
    ELSE IF IndexOf(s, ".") # 0 /\ py_int(SubSeq(s, 1, IndexOf(s, ".") - 1))[1]
            /\ (IndexOf(s, ".") = Len(s) \/ AllDigits(SubSeq(s, IndexOf(s, ".") + 1, Len(s))))
         THEN py_int(SubSeq(s, 1, IndexOf(s, ".") - 1))
         ELSE <<FALSE, 0>>

\* dcount of one Collection row, clamped to 0..8
c5_sc_dcount(det_raw) ==
    IF det_raw = <<>> \/ ~py_int_float(det_raw)[1] THEN 0
    ELSE clamp(0, 8, py_int_float(det_raw)[2])

VAR_KEYS == {<<"v", "a", "r", "i", "a", "t", "i", "o", "n", "i", "n", "t", "e", "g", "r", "a", "t", "i", "o", "n", "n", "o", ".">>, <<"v", "a", "r", "i", "a", "t", "i", "o", "n", "n", "o", ".">>, <<"v", "a", "r", "i", "a", "t", "i", "o", "n", "i", "n", "t", "e", "g", "r", "a", "t", "i", "o", "n">>, <<"v", "a", "r", "i", "a", "t", "i", "o", "n">>}

DET_KEYS ==
    {<<"d", "e", "t", "a", "i", "l", "s", "i", "n", "d", "e", "x">>, <<"d", "e", "t", "a", "i", "l", "s">>, <<"d", "e", "t", "a", "i", "l", "i", "n", "d", "e", "x">>, <<"d", "e", "t", "a", "i", "l", "i", "m", "a", "g", "e", "c", "o", "u", "n", "t">>, <<"d", "e", "t", "a", "i", "l", "s", "c", "o", "u", "n", "t">>,
     <<"d", "e", "t", "a", "i", "l", "c", "o", "u", "n", "t">>, <<"d", "e", "t", "a", "i", "l", "i", "m", "a", "g", "e", "s">>, <<"d", "e", "t", "a", "i", "l", "i", "m", "a", "g", "e">>}

\* dmap: each row with a variation id assigns its count, a later row of the
\* same id replaces the earlier one
c5_sc_dmap_at(coll_vals, ix_var, ix_det) ==
    IF ix_var = 0 \/ ix_det = 0 THEN <<>>
    ELSE [v \in {strip(coll_vals[r][ix_var]) :
                    r \in {q \in 2..Len(coll_vals) : strip(CellAt(coll_vals[q], ix_var)) # <<>>}} |->
            c5_sc_dcount(strip(coll_vals[MaxOf({q \in 2..Len(coll_vals) :
                                    strip(CellAt(coll_vals[q], ix_var)) = v})][ix_det]))]

\* _build_details_count_by_var
build_details_count_by_var(coll_vals) ==
    IF coll_vals = <<>> THEN <<>>
    ELSE c5_sc_dmap_at(coll_vals,
                       FirstIn(ExactMatches(KeysOf("sc", coll_vals[1]), VAR_KEYS)),
                       FirstIn(ExactMatches(KeysOf("sc", coll_vals[1]), DET_KEYS)))

\* data[i] = val "if key in ix_map and ix_map[key] < len(data)"
c5_sc_put(data, i, val) ==
    IF i >= 1 /\ i <= Len(data) THEN [data EXCEPT ![i] = val] ELSE data

c5_sc_get(data, i) == IF i >= 1 /\ i <= Len(data) THEN strip(data[i]) ELSE <<>>

RECURSIVE c5_sc_items(_, _, _, _, _, _)
\* the loop over D1..D8, from n on
c5_sc_items(data, ix_map, n, base, var_no, dcount) ==
    IF n > 8 THEN data
    ELSE c5_sc_items(c5_sc_put(data, ix_map.item[n],
                               IF var_no # <<>> /\ dcount >= n
                               THEN base \o var_no \o <<"_", "D">> \o IntToStr(n) \o <<".", "j", "p", "g">>
                               ELSE <<>>),
                     ix_map, n + 1, base, var_no, dcount)

c5_sc_data(data, ix_map, base, shop_code, var_no, sku, dcount) ==
    c5_sc_items(
        c5_sc_put(
            c5_sc_put(data, ix_map.cover,
                      IF var_no # <<>> /\ shop_code # <<>>
                      THEN base \o var_no \o <<"_", "C", "_">> \o shop_code \o <<".", "j", "p", "g">> ELSE <<>>),
            ix_map.ipv, IF sku # <<>> THEN base \o sku \o <<".", "j", "p", "g">> ELSE <<>>),
        ix_map, 1, base, var_no, dcount)

c5_sc_row_var(data, ix_map, dmap, base, shop_code, var_no) ==
    c5_sc_data(data, ix_map, base, shop_code, var_no, c5_sc_get(data, ix_map.sku),
               IF var_no \in DOMAIN dmap THEN dmap[var_no] ELSE 0)

c5_sc_row(row, base_offset, ix_map, dmap, base, shop_code) ==
    IF Len(row) <= base_offset THEN row
    ELSE SubSeq(row, 1, base_offset)
         \o c5_sc_row_var(SubSeq(row, base_offset + 1, Len(row)), ix_map, dmap, base, shop_code,
                          c5_sc_get(SubSeq(row, base_offset + 1, Len(row)), ix_map.variation))

c5_sc_values_with(tem_values, hdr, dmap, base, shop_code) ==
    [r \in 1..Len(tem_values) |->
        IF r <= hdr.hdr_row THEN tem_values[r]
        ELSE c5_sc_row(tem_values[r], hdr.base_offset, hdr.ix_map, dmap, base, shop_code)]

\* run_step_C5_images_values, for a matrix in which a header row is found
run_step_C5_images_values(tem_values, collection_values, base_url, shop_code) ==
    IF tem_values = <<>> THEN tem_values
    ELSE c5_sc_values_with(tem_values, find_header_row_and_offset(tem_values),
                           build_details_count_by_var(collection_values),
                           rstrip_slash(base_url) \o <<"/">>, shop_code)

\* run_step_C5_images raises RuntimeError when no row parses as a header
c5_sc_raises(tem_values) ==
    tem_values # <<>> /\ find_header_row_and_offset(tem_values).hdr_row = 0

\* the cells in which two matrices of the same shape differ, row by row
DiffCells(old, new) ==
    Flatten([r \in 1..Len(new) |->
        Flatten([c \in 1..Len(new[r]) |->
            IF new[r][c] # old[r][c] THEN << <<r, c, new[r][c]>> >> ELSE <<>>])])

\* run_step_C5_images: "if new_values != tem_values: tem_ws.update(...)",
\* the range update written as the cells it changes
c5_sc_updates(vals, coll_vals, base_url, shop_code) ==
    IF c5_sc_raises(vals) THEN <<>>
    ELSE DiffCells(vals, run_step_C5_images_values(vals, coll_vals, base_url, shop_code))

(***************************************************************************)
(* CSV export of TEM_OUTPUT                                                *)
(*                                                                         *)
(* The exported bytes are modelled as the sequence of characters           *)
(* csv.writer produces (dialect excel: comma, double quote, QUOTE_MINIMAL, *)
(* line terminator CR LF), after the byte order mark of "utf-8-sig".       *)
(***************************************************************************)
COMMA == ","
DQUOTE == "\""
CR == "\r"
LF == "\n"
BOM == "U+FEFF"

RECURSIVE sub_hyphens(_)
\* re.sub(r"\s*-\s*", "-", s): the spaces around every hyphen are removed
sub_hyphens(s) ==
    IF s = <<>> THEN <<>>
    ELSE IF lstrip(s) # <<>> /\ Head(lstrip(s)) = "-"
         THEN <<"-">> \o sub_hyphens(lstrip(Tail(lstrip(s))))
         ELSE <<Head(s)>> \o sub_hyphens(Tail(s))

\* variant: the category cell is exported as it is
export_data_row_AsIs(row) == Tail(row)

\* a data row below a header row: column A (PID) is dropped and the first
\* remaining cell, the one under "Category", is rewritten
export_data_row(row) == <<sub_hyphens(row[2])>> \o Tail(Tail(row))

\* processed_vals of export_tem_csv: header rows and data rows lose column
\* A; a row above the first header row loses it too, and a row of a
\* one-column worksheet is appended only before the first header row
export_row(vals, t) ==
    IF IsCategoryHeader(vals[t]) THEN << Tail(vals[t]) >>
    ELSE IF HeaderAbove(vals, t) # 0 /\ Len(vals[t]) > 1 THEN << export_data_row(vals[t]) >>
    ELSE IF Len(vals[t]) > 0 THEN << Tail(vals[t]) >>
    ELSE <<>>

export_processed_vals(vals) == Flatten([t \in 1..Len(vals) |-> export_row(vals, t)])

NeedsQuotes(s) == \E i \in 1..Len(s) : s[i] \in {COMMA, DQUOTE, CR, LF}

\* every double quote of the field is doubled
DoubleQuotes(s) == Flatten([i \in 1..Len(s) |-> IF s[i] = DQUOTE THEN <<DQUOTE, DQUOTE>> ELSE <<s[i]>>])

csv_field(s) == IF NeedsQuotes(s) THEN <<DQUOTE>> \o DoubleQuotes(s) \o <<DQUOTE>> ELSE s

RECURSIVE csv_join(_)
csv_join(fields) ==
    IF fields = <<>> THEN <<>>
    ELSE IF Len(fields) = 1 THEN csv_field(fields[1])
    ELSE csv_field(fields[1]) \o <<COMMA>> \o csv_join(Tail(fields))

\* writer.writerow: a row whose only field is empty is written as "" so
\* that it is not read back as a row without fields
csv_writerow(row) ==
    (IF row = << <<>> >> THEN <<DQUOTE, DQUOTE>> ELSE csv_join(row)) \o <<CR, LF>>

csv_writerows(rows) == Flatten([r \in 1..Len(rows) |-> csv_writerow(rows[r])])

\* buf.getvalue().encode("utf-8-sig")
encode_utf8_sig(text) == <<BOM>> \o text

\* export_tem_csv of shopee_creator; <<>> stands for None
export_tem_csv(vals) ==
    IF vals = <<>> \/ export_processed_vals(vals) = <<>> THEN <<>>
    ELSE encode_utf8_sig(csv_writerows(export_processed_vals(vals)))

\* ShopeeCreator.get_tem_values_csv of item_creator; <<>> stands for None
get_tem_values_csv(vals) ==
    IF vals = <<>> THEN <<>> ELSE encode_utf8_sig(csv_writerows(vals))

\* bytes.decode("utf-8-sig"): the byte order mark is dropped
decode_utf8_sig(bytes) == IF bytes # <<>> /\ Head(bytes) = BOM THEN Tail(bytes) ELSE bytes

(***************************************************************************)
(* csv.reader (dialect excel, not strict) over the decoded text, read with *)
(* newline = "".  A line break ends a record unless it lies inside a       *)
(* quoted field; the fields of a record are read by the parser's states,   *)
(* one character at a time.  Whether a line break lies inside a quoted     *)
(* field is told by the number of double quotes before it, which is exact  *)
(* for text whose unquoted fields hold no double quote, as csv.writer      *)
(* writes it.                                                              *)
(***************************************************************************)
QuotesUpTo(text, i) == Cardinality({j \in 1..i : text[j] = DQUOTE})

\* a CR or LF outside quotes
IsLineBreak(text, i) == text[i] \in {CR, LF} /\ QuotesUpTo(text, i) % 2 = 0

\* the LF of a CR LF pair is skipped
IsEatenLF(text, i) == i > 1 /\ text[i] = LF /\ text[i - 1] = CR /\ IsLineBreak(text, i - 1)

RecordEnds(text) ==
    {i \in 1..Len(text) : IsLineBreak(text, i) /\ ~IsEatenLF(text, i)}
    \cup (IF text # <<>> /\ ~IsLineBreak(text, Len(text)) THEN {Len(text) + 1} ELSE {})

RecordStart(text, e) == 1 + MaxOf({0} \cup {p \in 1..(e - 1) : IsLineBreak(text, p)})

Ranked(S) == [k \in 1..Cardinality(S) |-> CHOOSE e \in S : Cardinality({x \in S : x <= e}) = k]

RECURSIVE csv_scan(_, _, _, _, _)
\* the fields of one record
csv_scan(text, i, st, field, row) ==
    IF i > Len(text) THEN Append(row, field)
    ELSE IF st = "in_quoted"
    THEN IF text[i] = DQUOTE THEN csv_scan(text, i + 1, "quote_in_quoted", field, row)
         ELSE csv_scan(text, i + 1, "in_quoted", Append(field, text[i]), row)
    ELSE IF text[i] = COMMA
    THEN csv_scan(text, i + 1, "start_field", <<>>, Append(row, field))
    ELSE IF text[i] = DQUOTE /\ st = "start_field"
    THEN csv_scan(text, i + 1, "in_quoted", <<>>, row)
    ELSE IF text[i] = DQUOTE /\ st = "quote_in_quoted"
    THEN csv_scan(text, i + 1, "in_quoted", Append(field, DQUOTE), row)
    ELSE csv_scan(text, i + 1, "in_field", Append(field, text[i]), row)

\* an empty line is a record without fields
csv_record(text) == IF text = <<>> THEN <<>> ELSE csv_scan(text, 1, "start_field", <<>>, <<>>)

csv_records(text, ends) ==
    [k \in 1..Len(ends) |-> csv_record(SubSeq(text, RecordStart(text, ends[k]), ends[k] - 1))]

csv_reader(text) == csv_records(text, Ranked(RecordEnds(text)))


(***************************************************************************)
(* State                                                                   *)
(***************************************************************************)
VARIABLES
    cat_code,   \* category input: the "<digits> - " prefix (<<>> if none)
    cat_top,    \* category input: the top-level segment Top
    cat_rest,   \* category input: what follows Top, from its slash on
    cat_done,   \* implementations that have derived their key
    key_sc,     \* shopee_creator: header_key(top_of_category(category))
    key_ic      \* item_creator:   header_key(top_of_category(category) or "")

catvars == <<cat_code, cat_top, cat_rest, cat_done, key_sc, key_ic>>

VARIABLES
    ff_in,      \* forward fill: the input table, header row first
    ff_run,     \* forward fill: "" before the call, then the call that ran
    ff_out      \* forward fill: the returned table

ffvars == <<ff_in, ff_run, ff_out>>

VARIABLES
    impl,         \* "sc" shopee_creator controller, "ic" item_creator controller
    pc,           \* the step the run executes next, or "done" / "failed"
    coll,         \* Collection worksheet
    margin,       \* MARGIN worksheet
    tdict_exists, \* reference spreadsheet: it has a TemplateDict worksheet
    tdict,        \* reference spreadsheet: TemplateDict worksheet
    fda,          \* reference spreadsheet: TH Cos worksheet
    mdefaults,    \* reference spreadsheet: MandatoryDefaults_TH worksheet
    cat_props,    \* reference spreadsheet: cat props worksheet
    tem_exists,   \* TEM_OUTPUT worksheet exists
    tem,          \* TEM_OUTPUT worksheet
    fails_exists, \* Failures worksheet exists
    fails,        \* Failures worksheet
    c2,           \* what run_step_C2 built in this run
    prior,        \* TEM_OUTPUT and Failures as the run found them
    written,      \* titles of the worksheets that received a write call
    logs          \* <<step, ok>> per step the run has executed, in order

pipevars ==
    <<impl, pc, coll, margin, tdict_exists, tdict, fda, mdefaults,
      cat_props, tem_exists, tem, fails_exists, fails, c2, prior, written, logs>>

VARIABLES
    runs          \* the step functions called on their own so far, in call order

stepvars == <<runs>>

VARIABLES
    rt_impl,      \* with_retry: "sc" shopee_creator, "ic" item_creator, "iu" item_uploader
    rt_i,         \* with_retry: the loop index of the next attempt
    rt_calls,     \* with_retry: the outcome of each call of the wrapped function
    rt_sleeps,    \* with_retry: the sleeps made, as <<loop index, kind>>
    rt_last_err,  \* with_retry: last_err (item_creator, item_uploader)
    rt_status,    \* with_retry: "running", "returned", "returned_none" or "raised"
    rt_result     \* with_retry: the value returned or the error raised

retryvars == <<rt_impl, rt_i, rt_calls, rt_sleeps, rt_last_err, rt_status, rt_result>>

VARIABLES
    csv_bytes,    \* what the CSV export returned (<<>>: nothing yet, or None)
    csv_rows      \* the rows read back from csv_bytes

csvvars == <<csv_bytes, csv_rows>>

VARIABLES
    lk_headers,   \* the header row a column is looked up in
    lk_name,      \* the name looked up
    lk_alias,     \* its aliases, in the order of the call
    lk_fn,        \* the lookup function called ("": none yet)
    lk_result     \* the index it returned, 0 for -1

lookvars == <<lk_headers, lk_name, lk_alias, lk_fn, lk_result>>

vars == <<catvars, ffvars, pipevars, stepvars, retryvars, csvvars, lookvars>>

(***************************************************************************)
(* Top-level key derivation (run_step_C2, the lookup key)                  *)
(***************************************************************************)
MaxTopLen == 3

TopAlphabet == {"B", "e", "3", "-", " ", "&", ">", HANGUL}

RECURSIVE SeqsUpTo(_, _)
\* all sequences over S of length at most n
SeqsUpTo(S, n) ==
    IF n = 0 THEN {<<>>}
    ELSE LET shorter == SeqsUpTo(S, n - 1)
         IN  shorter \cup {Append(s, c) : s \in {t \in shorter : Len(t) = n - 1}, c \in S}

ExampleCategoryCode == <<"1", "0", "1", "6", "4", "3", " ", "-", " ">>
ExampleCategoryTop == <<"B", "e", "a", "u", "t", "y">>
ExampleCategoryRest ==
    <<"/", "M", "a", "k", "e", "u", "p", "/", "L", "i", "p", "s", "/",
      "L", "i", "p", " ", "G", "l", "o", "s", "s">>

CodePrefixes == {<<>>, <<"1", "0", " ", "-", " ">>, <<"7", "-">>, ExampleCategoryCode}

Rests == {<<"/", "M">>, <<" ", "/", " ", "M", "/", "L">>, ExampleCategoryRest}

\* the forward-fill variables of a specification that does not use them
FFIdle == ff_in = <<>> /\ ff_run = "" /\ ff_out = <<>>

StepIdle == runs = <<>>

CsvIdle == csv_bytes = <<>> /\ csv_rows = <<>>

LookIdle ==
    /\ lk_headers = <<>> /\ lk_name = <<>> /\ lk_alias = <<>> /\ lk_fn = "" /\ lk_result = 0

RetryIdle ==
    /\ rt_impl = "" /\ rt_i = 0 /\ rt_calls = <<>> /\ rt_sleeps = <<>>
    /\ rt_last_err = <<>> /\ rt_status = "" /\ rt_result = <<>>

\* the pipeline variables of a specification that does not use them
PipeIdle ==
    /\ impl = "" /\ pc = "" /\ coll = <<>> /\ margin = <<>> /\ tdict = <<>> /\ fda = <<>>
    /\ mdefaults = <<>> /\ cat_props = <<>>
    /\ tem_exists = FALSE /\ tem = <<>> /\ fails_exists = FALSE /\ fails = <<>>
    /\ c2 = <<>> /\ prior = <<>> /\ written = {}
    /\ tdict_exists = FALSE /\ logs = <<>>

\* the category variables of a specification that does not use them
CatIdle ==
    /\ cat_code = <<>> /\ cat_top = <<>> /\ cat_rest = <<>>
    /\ cat_done = {} /\ key_sc = <<>> /\ key_ic = <<>>

Category == cat_code \o cat_top \o cat_rest

CatInit ==
    /\ cat_code \in CodePrefixes
    /\ cat_top \in SeqsUpTo(TopAlphabet, MaxTopLen) \cup {ExampleCategoryTop}
    /\ cat_rest \in Rests
    /\ cat_done = {}
    /\ key_sc = <<>>
    /\ key_ic = <<>>
    /\ FFIdle
    /\ PipeIdle
    /\ StepIdle
    /\ RetryIdle
    /\ CsvIdle
    /\ LookIdle

\* run_step_C2 (shopee_creator): top_norm = header_key(top_category_raw or "")
sc_TopKey(category) == sc_header_key(sc_top_of_category(category))

\* run_step_C2 (item_creator): top_norm = header_key(top_of_category(category) or "")
ic_TopKey(category) == ic_header_key(ic_top_of_category(category))

DeriveKeySc ==
    /\ "sc" \notin cat_done
    /\ key_sc' = sc_TopKey(strip(Category))
    /\ cat_done' = cat_done \cup {"sc"}
    /\ UNCHANGED <<cat_code, cat_top, cat_rest, key_ic, ffvars, pipevars, stepvars, retryvars, csvvars, lookvars>>

DeriveKeyIc ==
    /\ "ic" \notin cat_done
    /\ key_ic' = ic_TopKey(strip(Category))
    /\ cat_done' = cat_done \cup {"ic"}
    /\ UNCHANGED <<cat_code, cat_top, cat_rest, key_sc, ffvars, pipevars, stepvars, retryvars, csvvars, lookvars>>

CatNext == DeriveKeySc \/ DeriveKeyIc

SpecCat == CatInit /\ [][CatNext]_vars

(***************************************************************************)
(* forward_fill_by_group on its own: the table has the columns Create      *)
(* (1), Variation (2, the group column) and Category (3); the fill columns *)
(* are Variation and Category, as in run_step_C2's fill_cols.              *)
(***************************************************************************)
MaxFFRows == 3

FFCreateCol == 1
FFGroupCol == 2
FFValueCol == 3
FFFillCols == {FFGroupCol, FFValueCol}

FFHeader ==
    << <<"C", "r", "e", "a", "t", "e">>,
       <<"V", "a", "r", "i", "a", "t", "i", "o", "n">>,
       <<"C", "a", "t", "e", "g", "o", "r", "y">> >>

FFRows ==
    { <<c, v, x>> : c \in {<<>>, <<"T", "R", "U", "E">>},
                    v \in {<<>>, <<"V", "1">>, <<"V", "2">>},
                    x \in {<<>>, <<"a">>, <<"b">>} }

FFInit ==
    /\ \E n \in 1..MaxFFRows : \E body \in [1..n -> FFRows] : ff_in = <<FFHeader>> \o body
    /\ ff_run = ""
    /\ ff_out = <<>>
    /\ CatIdle
    /\ PipeIdle
    /\ StepIdle
    /\ RetryIdle
    /\ CsvIdle
    /\ LookIdle

\* run_step_C2 of shopee_creator: reset on fully blank rows
FFRunSc ==
    /\ ff_run = ""
    /\ ff_run' = "sc_blank"
    /\ ff_out' = sc_forward_fill_by_group(ff_in, FFGroupCol, FFFillCols, "blank", FFCreateCol)
    /\ UNCHANGED <<ff_in, catvars, pipevars, stepvars, retryvars, csvvars, lookvars>>

\* run_step_C2 of item_creator: reset on fully blank rows
FFRunIcBlank ==
    /\ ff_run = ""
    /\ ff_run' = "ic_blank"
    /\ ff_out' = ic_forward_fill_by_group(ff_in, FFGroupCol, FFFillCols, "blank", FFCreateCol)
    /\ UNCHANGED <<ff_in, catvars, pipevars, stepvars, retryvars, csvvars, lookvars>>

\* run_step_C5_images of item_creator: reset on blank and on create=false rows
FFRunIcCreate ==
    /\ ff_run = ""
    /\ ff_run' = "ic_create"
    /\ ff_out' = ic_forward_fill_by_group(ff_in, FFGroupCol, FFFillCols,
                                          "blank_or_not_create", FFCreateCol)
    /\ UNCHANGED <<ff_in, catvars, pipevars, stepvars, retryvars, csvvars, lookvars>>

\* shopee_creator's forward_fill_by_group under the other reset predicate
\* (reset_when is a parameter of the function)
FFRunScCreate ==
    /\ ff_run = ""
    /\ ff_run' = "sc_create"
    /\ ff_out' = sc_forward_fill_by_group(ff_in, FFGroupCol, FFFillCols,
                                          "blank_or_not_create", FFCreateCol)
    /\ UNCHANGED <<ff_in, catvars, pipevars, stepvars, retryvars, csvvars, lookvars>>

FFNext == FFRunSc \/ FFRunIcBlank \/ FFRunIcCreate \/ FFRunScCreate

SpecFF == FFInit /\ [][FFNext]_vars

(***************************************************************************)
(* C10: the top-level lookup key                                           *)
(***************************************************************************)
HasCode == cat_code # <<>>

\* Top itself begins like a category code: digits, optional spaces, a hyphen
TopHasCodePrefix ==
    \E n \in 1..Len(lstrip(cat_top)) :
        /\ \A i \in 1..n : IsDigit(lstrip(cat_top)[i])
        /\ lstrip(Drop(lstrip(cat_top), n)) # <<>>
        /\ Head(lstrip(Drop(lstrip(cat_top), n))) = "-"

\* Top holds ASCII characters only, and no hyphen
TopAsciiNoHyphen == \A i \in 1..Len(cat_top) : cat_top[i] \notin {"-", HANGUL}

IsExampleCategory ==
    /\ cat_code = ExampleCategoryCode
    /\ cat_top = ExampleCategoryTop
    /\ cat_rest = ExampleCategoryRest

KeyBeauty == <<"b", "e", "a", "u", "t", "y">>

MaxCollRows == 3

CollHeader ==
    << <<"C", "r", "e", "a", "t", "e">>, <<"V", "a", "r", "i", "a", "t", "i", "o", "n">>, <<"S", "K", "U">>, <<"B", "r", "a", "n", "d">>, <<"O", "p", "t", "i", "o", "n", "(", "K", "o", "r", ")">>, <<"O", "p", "t", "i", "o", "n", "(", "E", "n", "g", ")">>,
       <<"I", "t", "e", "m", "(", "K", "o", "r", ")">>, <<"P", "r", "o", "d", "u", "c", "t", " ", "N", "a", "m", "e">>, <<"M", "e", "m", "o">>, <<"D", "e", "s", "c", "r", "i", "p", "t", "i", "o", "n">>, <<"C", "a", "t", "e", "g", "o", "r", "y">>,
       <<"D", "e", "t", "a", "i", "l", "s", " ", "I", "n", "d", "e", "x">>, <<"P", "r", "i", "c", "e">>, <<"O", "r", "i", "g", "i", "n", "a", "l", " ", "P", "r", "i", "c", "e">> >>

\* a Collection row from its fields; columns E, G and I are not read
CollRow(create, variation, sku, brand, option, pname, desc, category, dcount, price, oprice) ==
    <<create, variation, sku, brand, <<>>, option, <<>>, pname, <<>>, desc, category, dcount,
      price, oprice>>

RowFull ==
    CollRow(<<"T", "R", "U", "E">>, <<"V", "1">>, <<"S", "1">>, <<"B", "x">>, <<"R", "e", "d">>, <<"N", "1">>, <<"D", "1">>, <<"7", " ", "-", " ", "B", "e", "a", "u", "t", "y", "/", "L", "i", "p">>, <<"3">>, <<"9", "0">>, <<>>)
RowContinue ==
    CollRow(<<"T", "R", "U", "E">>, <<>>, <<"S", "2">>, <<>>, <<"B", "l", "u", "e">>, <<>>, <<>>, <<>>, <<>>, <<>>, <<>>)
RowBlank ==
    CollRow(<<>>, <<>>, <<>>, <<>>, <<>>, <<>>, <<>>, <<>>, <<>>, <<>>, <<>>)
RowToys ==
    CollRow(<<"T", "R", "U", "E">>, <<"V", "2">>, <<"S", "3">>, <<>>, <<>>, <<"N", "2">>, <<>>, <<"T", "o", "y", "s", "/", "C", "a", "r">>, <<>>, <<"4", "0">>, <<"5", "0">>)
RowOff ==
    CollRow(<<"F", "A", "L", "S", "E">>, <<"V", "3">>, <<"S", "4">>, <<"B", "y">>, <<>>, <<"N", "3">>, <<"D", "3">>, <<"7", " ", "-", " ", "B", "e", "a", "u", "t", "y", "/", "L", "i", "p">>, <<"2">>, <<"8", "0">>, <<>>)
RowBare ==
    CollRow(<<"T", "R", "U", "E">>, <<>>, <<>>, <<>>, <<"G", "r", "e", "e", "n">>, <<>>, <<>>, <<>>, <<>>, <<>>, <<>>)

CollRows == {RowFull, RowContinue, RowBlank, RowToys, RowOff, RowBare}

\* get_all_values() never ends in an empty row
Collections ==
    UNION { { <<CollHeader>> \o body : body \in {b \in [1..n -> CollRows] : b[n] # RowBlank} }
            : n \in 1..MaxCollRows }

BeautySchema ==
    << <<"C", "a", "t", "e", "g", "o", "r", "y">>, <<"P", "r", "o", "d", "u", "c", "t", " ", "N", "a", "m", "e">>, <<"P", "r", "o", "d", "u", "c", "t", " ", "D", "e", "s", "c", "r", "i", "p", "t", "i", "o", "n">>, <<"P", "a", "r", "e", "n", "t", " ", "S", "K", "U">>,
       <<"V", "a", "r", "i", "a", "t", "i", "o", "n", " ", "I", "n", "t", "e", "g", "r", "a", "t", "i", "o", "n", " ", "N", "o", ".">>, <<"V", "a", "r", "i", "a", "t", "i", "o", "n", " ", "N", "a", "m", "e", "1">>, <<"O", "p", "t", "i", "o", "n", " ", "f", "o", "r", " ", "V", "a", "r", "i", "a", "t", "i", "o", "n", " ", "1">>,
       <<"P", "r", "i", "c", "e">>, <<"S", "t", "o", "c", "k">>, <<"S", "K", "U">>, <<"B", "r", "a", "n", "d">>, <<"W", "e", "i", "g", "h", "t">>, <<"C", "o", "v", "e", "r", " ", "i", "m", "a", "g", "e">>,
       <<"I", "m", "a", "g", "e", " ", "p", "e", "r", " ", "V", "a", "r", "i", "a", "t", "i", "o", "n">>, <<"I", "t", "e", "m", " ", "I", "m", "a", "g", "e", " ", "1">>, <<"I", "t", "e", "m", " ", "I", "m", "a", "g", "e", " ", "2">>, <<"I", "t", "e", "m", " ", "I", "m", "a", "g", "e", " ", "3">>,
       <<"I", "t", "e", "m", " ", "I", "m", "a", "g", "e", " ", "4">>, <<"I", "t", "e", "m", " ", "I", "m", "a", "g", "e", " ", "5">>, <<"I", "t", "e", "m", " ", "I", "m", "a", "g", "e", " ", "6">>, <<"I", "t", "e", "m", " ", "I", "m", "a", "g", "e", " ", "7">>,
       <<"I", "t", "e", "m", " ", "I", "m", "a", "g", "e", " ", "8">>, <<"D", "a", "y", "s", " ", "t", "o", " ", "s", "h", "i", "p">>, <<"F", "D", "A", " ", "R", "e", "g", "i", "s", "t", "r", "a", "t", "i", "o", "n", " ", "N", "o", ".">> >>

ToysSchema ==
    << <<"C", "a", "t", "e", "g", "o", "r", "y">>, <<"S", "K", "U">>, <<"P", "r", "o", "d", "u", "c", "t", " ", "N", "a", "m", "e">>, <<"B", "r", "a", "n", "d">>, <<"O", "r", "i", "g", "i", "n", "a", "l", " ", "P", "r", "i", "c", "e">>, <<"S", "t", "o", "c", "k">> >>

TemplateDictHeader == << <<"T", "o", "p", "L", "e", "v", "e", "l">>, <<"H", "e", "a", "d", "e", "r", "s">> >>

\* the TemplateDict tabs the runs start from: both schemas, Beauty only,
\* and a tab with its header row only
TemplateDicts ==
    { get_all_values(<< TemplateDictHeader, <<<<"B", "e", "a", "u", "t", "y">>>> \o BeautySchema,
                        <<<<"T", "o", "y", "s">>>> \o ToysSchema >>),
      get_all_values(<< TemplateDictHeader, <<<<"B", "e", "a", "u", "t", "y">>>> \o BeautySchema >>),
      get_all_values(<< TemplateDictHeader >>) }

MarginSheet ==
    << << <<"S", "K", "U">>, <<"P", "r", "i", "c", "e">>, <<"W", "e", "i", "g", "h", "t">> >>,
       << <<"S", "1">>, <<"1", "0", "0">>, <<"0", ".", "5">> >>,
       << <<"S", "3">>, <<"2", "5", "0">>, <<>> >> >>

FdaSheet == << << <<"7", " ", "-", " ", "B", "e", "a", "u", "t", "y", "/", "L", "i", "p">> >> >>

MandatoryDefaultsSheet ==
    << << <<"C", "a", "t", "e", "g", "o", "r", "y">>, <<"A", "t", "t", "r", "i", "b", "u", "t", "e">>, <<"D", "e", "f", "a", "u", "l", "t", " ", "V", "a", "l", "u", "e">> >>,
       << <<"B", "e", "a", "u", "t", "y", " ", "/", " ", "L", "i", "p">>, <<"W", "e", "i", "g", "h", "t">>, <<"0", ".", "3">> >>,
       << <<"T", "o", "y", "s", " ", "-", " ", "C", "a", "r">>, <<"S", "t", "o", "c", "k">>, <<"7">> >>,
       << <<"L", "i", "p">>, <<"B", "r", "a", "n", "d">>, <<"N", "b">> >>,
       << <<"B", "e", "a", "u", "t", "y", "/", "L", "i", "p">>, <<"B", "r", "a", "n", "d">>, <<>> >>,
       << <<"B", "e", "a", "u", "t", "y", "/", "L", "i", "p">>, <<"P", "r", "i", "c", "e">>, <<"9">> >> >>

CatPropsSheet ==
    << << <<"C", "a", "t", "e", "g", "o", "r", "y">>, <<"W", "e", "i", "g", "h", "t">>, <<"B", "r", "a", "n", "d">> >>,
       << <<"B", "e", "a", "u", "t", "y", "/", "L", "i", "p">>, <<"m", "a", "n", "d", "a", "t", "o", "r", "y">>, <<>> >> >>

OLD == <<"O", "L", "D">>

\* TEM_OUTPUT left by an earlier run: larger than anything a run writes
OldTem ==
    [i \in 1..6 |-> [j \in 1..28 |->
        IF <<i, j>> \in {<<1, 1>>, <<1, 2>>, <<2, 11>>, <<3, 3>>, <<6, 28>>} THEN OLD ELSE <<>>]]

OldFailures ==
    << FailuresHeader,
       << OLD, <<>>, OLD, <<"C", "A", "T", "E", "G", "O", "R", "Y", "_", "M", "I", "S", "S", "I", "N", "G">>, <<"r", "o", "w", "=", "2">> >> >>

\* a first run (neither worksheet exists) and a run over what an earlier
\* run left behind
Priors ==
    { [tem_exists |-> FALSE, tem |-> <<>>, fails_exists |-> FALSE, fails |-> <<>>],
      [tem_exists |-> TRUE, tem |-> OldTem, fails_exists |-> TRUE, fails |-> OldFailures] }

FirstStep(i) == IF i = "sc" THEN "open" ELSE "connect"

PipeInit ==
    /\ impl \in {"sc", "ic"}
    /\ pc = FirstStep(impl)
    /\ coll \in Collections
    /\ margin = MarginSheet
    /\ tdict_exists \in BOOLEAN
    /\ tdict \in (IF tdict_exists THEN TemplateDicts ELSE {<<>>})
    /\ fda = FdaSheet
    /\ mdefaults = MandatoryDefaultsSheet
    /\ cat_props = CatPropsSheet
    /\ prior \in Priors
    /\ tem_exists = prior.tem_exists /\ tem = prior.tem
    /\ fails_exists = prior.fails_exists /\ fails = prior.fails
    /\ c2 = C2Nothing
    /\ written = {}
    /\ logs = <<>>
    /\ CatIdle
    /\ FFIdle
    /\ StepIdle
    /\ RetryIdle
    /\ CsvIdle
    /\ LookIdle

\* variant: item_creator's run goes from _connect to C1 without resetting
\* Failures
NextStep_NoReset(i, step) ==
    IF i = "sc"
    THEN CASE step = "open" -> "C1"
           [] step = "C1" -> "C2"
           [] step = "C2" -> "C3"
           [] step = "C3" -> "C4"
           [] step = "C4" -> "C5"
           [] step = "C5" -> "C6"
           [] step = "C6" -> "done"
    ELSE CASE step = "connect" -> "C1"
           [] step = "reset_failures" -> "C1"
           [] step = "C1" -> "C2"
           [] step = "C2" -> "C4"
           [] step = "C4" -> "C5"
           [] step = "C5" -> "C6"
           [] step = "C6" -> "done"

\* the order of the steps in the pipeline list of each controller
NextStep(i, step) ==
    IF i = "sc"
    THEN CASE step = "open" -> "C1"
           [] step = "C1" -> "C2"
           [] step = "C2" -> "C3"
           [] step = "C3" -> "C4"
           [] step = "C4" -> "C5"
           [] step = "C5" -> "C6"
           [] step = "C6" -> "done"
    ELSE CASE step = "connect" -> "reset_failures"
           [] step = "reset_failures" -> "C1"
           [] step = "C1" -> "C2"
           [] step = "C2" -> "C4"
           [] step = "C4" -> "C5"
           [] step = "C5" -> "C6"
           [] step = "C6" -> "done"

\* variant: the loop goes on with the next step after a failed one
StepEnds_Continue(ok) ==
    /\ pc' = NextStep(impl, pc)
    /\ logs' = Append(logs, <<pc, ok>>)

\* how a step of the run ends.  shopee_creator: "try: fn();
\* logs.append(StepLog(name, ok=True))", and on an exception the failed
\* entry and "break".  item_creator: the next statement of the try block,
\* or "except Exception: ... return False"
StepEnds(ok) ==
    /\ pc' = IF ok THEN NextStep(impl, pc) ELSE "failed"
    /\ logs' = Append(logs, <<pc, ok>>)

\* shopee_creator's run opens the two spreadsheets before its try block: an
\* exception there leaves run, and no log list is returned
OpenSc ==
    /\ pc = "open"
    /\ \E ok \in BOOLEAN : pc' = IF ok THEN NextStep(impl, pc) ELSE "raised"
    /\ UNCHANGED <<logs, written, prior, impl, coll, margin, tdict_exists, tdict, fda, mdefaults, cat_props,
                   tem_exists, tem, fails_exists, fails, c2, catvars, ffvars, stepvars, retryvars, csvvars, lookvars>>

\* item_creator's _connect and the two asserts after it, inside the try
\* block.  _connect raises when the spreadsheet cannot be opened; it
\* swallows the exception of opening the reference spreadsheet and leaves
\* self.ref = None, on which "assert self.ref is not None" raises.  Both
\* end in "except Exception: ... return False".
ConnectIc ==
    /\ pc = "connect"
    /\ \E sh_ok, ref_ok \in BOOLEAN :
          /\ pc' = IF sh_ok /\ ref_ok THEN NextStep(impl, pc) ELSE "failed"
          /\ logs' = IF sh_ok
                     THEN logs \o << <<"connect", TRUE>>, <<"assert_ref", ref_ok>> >>
                     ELSE Append(logs, <<"connect", FALSE>>)
    /\ UNCHANGED <<written, prior, impl, coll, margin, tdict_exists, tdict, fda, mdefaults, cat_props,
                   tem_exists, tem, fails_exists, fails, c2, catvars, ffvars, stepvars, retryvars, csvvars, lookvars>>

\* variant: C1 writes A1 = "" without clearing the worksheet first
c1_tem_NoClear(exists, vals) ==
    update_cells(vals, << <<1, 1, <<>>>> >>)

\* run_step_C1: clear the existing worksheet or add a new one, then A1 = ""
c1_tem(exists, vals) ==
    update_cells(IF exists THEN clear(vals) ELSE <<>>, << <<1, 1, <<>>>> >>)

\* ShopeeCreator._reset_failures (item_creator): clear or add Failures,
\* then write its header row
reset_failures(exists, vals) ==
    get_all_values(<<FailuresHeader>>)

ResetFailures ==
    /\ pc = "reset_failures"
    /\ fails_exists' = TRUE
    /\ fails' = reset_failures(fails_exists, fails)
    /\ written' = written \cup {"Failures"}
    /\ StepEnds(TRUE)
    /\ UNCHANGED <<prior, impl, coll, margin, tdict_exists, tdict, fda, mdefaults, cat_props, tem_exists, tem, c2, catvars, ffvars, stepvars, retryvars, csvvars, lookvars>>

\* variant: C1 clears the Collection tab instead of TEM_OUTPUT
StepC1_WrongTab ==
    /\ pc = "C1"
    /\ coll' = clear(coll)
    /\ written' = written \cup {"Collection"}
    /\ StepEnds(TRUE)
    /\ UNCHANGED <<prior, impl, margin, tdict_exists, tdict, fda, mdefaults, cat_props, tem_exists, tem, fails_exists, fails,
                   c2, catvars, ffvars, stepvars, retryvars, csvvars, lookvars>>

StepC1 ==
    /\ pc = "C1"
    /\ tem_exists' = TRUE
    /\ tem' = c1_tem(tem_exists, tem)
    /\ written' = written \cup {"TEM_OUTPUT"}
    /\ StepEnds(TRUE)
    /\ UNCHANGED <<prior, impl, coll, margin, tdict_exists, tdict, fda, mdefaults, cat_props, fails_exists, fails, c2, catvars, ffvars, stepvars, retryvars, csvvars, lookvars>>

C2Effect(b) ==
    /\ c2' = b
    /\ StepEnds(~b.raised)
    /\ tem' = c2_write_tem(tem, b.out_matrix)
    /\ IF impl = "ic" /\ b.failures # <<>>
       THEN /\ fails_exists' = TRUE
            /\ fails' = c2_write_failures(fails_exists, fails, b.failures)
       ELSE UNCHANGED <<fails_exists, fails>>
    /\ written' = written \cup (IF b.out_matrix # <<>> THEN {"TEM_OUTPUT"} ELSE {})
                          \cup (IF impl = "ic" /\ b.failures # <<>> THEN {"Failures"} ELSE {})

StepC2 ==
    /\ pc = "C2"
    /\ C2Effect(IF tdict_exists THEN c2_build(impl, tdict, coll)
                ELSE [C2Nothing EXCEPT !.raised = TRUE])
    /\ UNCHANGED <<prior, impl, coll, margin, tdict_exists, tdict, fda, mdefaults, cat_props, tem_exists, catvars, ffvars, stepvars, retryvars, csvvars, lookvars>>

\* the image bases and the shop code the page hands to the controller
ImageConfig ==
    [shop_code |-> <<"T", "H">>, cover_base_url |-> <<"u", "/", "c", "/">>, details_base_url |-> <<"u", "/", "d">>,
     option_base_url |-> <<"u", "/", "o">>]

\* "if updates: tem_ws.update_cells(updates)": the end of every back-fill step
BackFill(updates) ==
    /\ tem' = write_updates(tem, updates)
    /\ written' = IF updates = <<>> THEN written ELSE written \cup {"TEM_OUTPUT"}

\* shopee_creator only: run_step_C3_fda(sh, ref), overwrite left at False
StepC3 ==
    /\ pc = "C3"
    /\ BackFill(c3_updates(tem, c3_target_categories(fda), FALSE))
    /\ StepEnds(TRUE)
    /\ UNCHANGED <<prior, impl, coll, margin, tdict_exists, tdict, fda, mdefaults, cat_props, tem_exists, fails_exists, fails, c2,
                   catvars, ffvars, stepvars, retryvars, csvvars, lookvars>>

StepC4 ==
    /\ pc = "C4"
    /\ BackFill(c4_updates(impl, tem, coll, margin))
    /\ StepEnds(TRUE)
    /\ UNCHANGED <<prior, impl, coll, margin, tdict_exists, tdict, fda, mdefaults, cat_props, tem_exists, fails_exists, fails, c2,
                   catvars, ffvars, stepvars, retryvars, csvvars, lookvars>>

\* ShopeeCreator._run_c5_images of shopee_creator returns without calling
\* run_step_C5_images, whether or not the image bases are set: no update
run_c5_images(vals) == <<>>

StepC5 ==
    /\ pc = "C5"
    /\ BackFill(IF impl = "sc" THEN run_c5_images(tem) ELSE c5_ic_updates(tem, coll, ImageConfig))
    /\ StepEnds(TRUE)
    /\ UNCHANGED <<prior, impl, coll, margin, tdict_exists, tdict, fda, mdefaults, cat_props, tem_exists, fails_exists, fails, c2,
                   catvars, ffvars, stepvars, retryvars, csvvars, lookvars>>

StepC6 ==
    /\ pc = "C6"
    /\ IF impl = "sc"
       THEN /\ StepEnds(~c6_sc_raises(tem))
            /\ UNCHANGED <<tem, written>>
       ELSE /\ StepEnds(TRUE)
            /\ BackFill(c6_ic_updates(tem, margin))
    /\ UNCHANGED <<prior, impl, coll, margin, tdict_exists, tdict, fda, mdefaults, cat_props, tem_exists, fails_exists, fails, c2,
                   catvars, ffvars, stepvars, retryvars, csvvars, lookvars>>

\* the Sheets API is unavailable when the step makes its first call
StepRaises ==
    /\ pc \in {"reset_failures", "C1", "C2", "C3", "C4", "C5", "C6"}
    /\ ~(impl = "sc" /\ pc \in {"C3", "C5"})
    /\ StepEnds(FALSE)
    /\ UNCHANGED <<written, prior, impl, coll, margin, tdict_exists, tdict, fda, mdefaults, cat_props, tem_exists, tem, fails_exists, fails, c2,
                   catvars, ffvars, stepvars, retryvars, csvvars, lookvars>>

\* the cell updates, then the formatting request on TEM_OUTPUT's sheetId
C7Effect(updates, requests) ==
    /\ tem' = write_updates(tem, updates)
    /\ written' = IF updates # <<>> \/ requests THEN written \cup {"TEM_OUTPUT"} ELSE written

\* run_step_C7_mandatory_defaults is in no controller's pipeline list: it is
\* called on its own once a run of shopee_creator has ended.  It returns at
\* once when TEM_OUTPUT does not exist; OVERWRITE_NONEMPTY is not set.
StepC7 ==
    /\ impl = "sc"
    /\ pc \in {"done", "failed"}
    /\ IF tem_exists
       THEN C7Effect(c7_updates(tem, c7_entries(mdefaults), FALSE),
                     c7_requests(tem, c7_mand_entries(cat_props)))
       ELSE UNCHANGED <<tem, written>>
    /\ pc' = "C7_done"
    /\ UNCHANGED <<logs, prior, impl, coll, margin, tdict_exists, tdict, fda, mdefaults, cat_props, tem_exists, fails_exists, fails, c2,
                   catvars, ffvars, stepvars, retryvars, csvvars, lookvars>>

PipeNext ==
    OpenSc \/ ConnectIc \/ ResetFailures \/ StepC1 \/ StepC2 \/ StepC3 \/ StepC4 \/ StepC5 \/ StepC6 \/ StepC7
    \/ StepRaises

Spec == PipeInit /\ [][PipeNext]_vars

(***************************************************************************)
(* The back-fill steps called on their own                                 *)
(*                                                                         *)
(* Each step function takes the spreadsheet and can be called again on the *)
(* TEM_OUTPUT a run of C1 and C2 left behind (the run_c3_fda ...           *)
(* run_c6_swb aliases of shopee_creator).  TEM_OUTPUT starts as C2 wrote   *)
(* it, possibly with one data cell typed in by hand afterwards.            *)
(***************************************************************************)
MaxStepRuns == 2

RowEye ==
    CollRow(<<"T", "R", "U", "E">>, <<"V", "4">>, <<"S", "6">>, <<>>, <<>>, <<"N", "4">>, <<>>, <<"B", "e", "a", "u", "t", "y", "/", "E", "y", "e">>, <<"1">>, <<"7", "0">>, <<>>)
\* a second row that repeats the variation id of RowFull, Details Index blank
RowRepeat ==
    CollRow(<<"T", "R", "U", "E">>, <<"V", "1">>, <<"S", "5">>, <<>>, <<"P", "i", "n", "k">>, <<>>, <<>>, <<>>, <<>>, <<"9", "5">>, <<>>)

\* a product whose Collection row carries a Price and an Original Price
RowHome ==
    CollRow(<<"T", "R", "U", "E">>, <<"V", "5">>, <<"S", "7">>, <<>>, <<>>, <<"N", "5">>, <<>>, <<"H", "o", "m", "e", "/", "L", "a", "m", "p">>, <<"2">>, <<"4", "0">>, <<"5", "0">>)

\* a schema with an Original Price header and no Price header
HomeSchema ==
    << <<"C", "a", "t", "e", "g", "o", "r", "y">>, <<"P", "a", "r", "e", "n", "t", " ", "S", "K", "U">>, <<"S", "K", "U">>, <<"O", "r", "i", "g", "i", "n", "a", "l", " ", "P", "r", "i", "c", "e">>, <<"S", "t", "o", "c", "k">> >>

StepCollections ==
    { <<CollHeader, RowFull, RowContinue, RowToys>>,
      <<CollHeader, RowToys, RowFull, RowEye>>,
      <<CollHeader, RowFull, RowRepeat, RowEye>>,
      <<CollHeader, RowEye, RowOff, RowFull>>,
      <<CollHeader, RowToys>>,
      <<CollHeader, RowHome, RowFull>>,
      <<CollHeader, RowBare, RowFull>> }

FullTemplateDict ==
    get_all_values(<< TemplateDictHeader, <<<<"B", "e", "a", "u", "t", "y">>>> \o BeautySchema,
                      <<<<"T", "o", "y", "s">>>> \o ToysSchema, <<<<"H", "o", "m", "e">>>> \o HomeSchema >>)

\* TEM_OUTPUT as run_step_C1 and run_step_C2 leave it on a new worksheet
tem_after_c2(i, td_vals, coll_vals) ==
    c2_write_tem(c1_tem(FALSE, <<>>), c2_build(i, td_vals, coll_vals).out_matrix)

HandTyped == <<"5", "5", "-", "5">>

\* the cells of data rows under the last header of the widest block
HandCells(vals) ==
    {<<t, Len(vals[t])>> : t \in {q \in 1..Len(vals) : ~IsCategoryHeader(vals[q])}}

HandEdits(vals) ==
    {<<>>} \cup {<< <<rc[1], rc[2], HandTyped>> >> : rc \in HandCells(vals)}

StepInit ==
    /\ impl \in {"sc", "ic"}
    /\ pc = "step"
    /\ coll \in StepCollections
    /\ margin = MarginSheet
    /\ tdict_exists = TRUE
    /\ tdict = FullTemplateDict
    /\ fda = FdaSheet
    /\ mdefaults = MandatoryDefaultsSheet
    /\ cat_props = CatPropsSheet
    /\ tem_exists = TRUE
    /\ \E c2_tem \in {tem_after_c2(impl, tdict, coll)} :
          \E e \in HandEdits(c2_tem) : tem = write_updates(c2_tem, e)
    /\ fails_exists = FALSE /\ fails = <<>>
    /\ c2 = C2Nothing
    /\ prior = [tem_exists |-> TRUE, tem |-> tem, fails_exists |-> FALSE, fails |-> <<>>]
    /\ written = {}
    /\ logs = <<>>
    /\ runs = <<>>
    /\ CatIdle
    /\ FFIdle
    /\ RetryIdle
    /\ CsvIdle
    /\ LookIdle

\* one call of a step function: what it found, the batch it built, whether
\* it raised
StepRun(step, overwrite, base_url, updates, raised) ==
    [step |-> step, overwrite |-> overwrite, base_url |-> base_url, before |-> tem,
     updates |-> updates, raised |-> raised]

StepEffect(step, overwrite, base_url, updates, raised) ==
    /\ pc = "step"
    /\ Len(runs) < MaxStepRuns
    /\ runs' = Append(runs, StepRun(step, overwrite, base_url, updates, raised))
    /\ BackFill(updates)
    /\ UNCHANGED <<pc, logs, prior, impl, coll, margin, tdict_exists, tdict, fda, mdefaults, cat_props, tem_exists,
                   fails_exists, fails, c2, catvars, ffvars, retryvars, csvvars, lookvars>>

\* run_step_C3_fda(sh, ref, overwrite), shopee_creator only
RunC3 ==
    /\ impl = "sc"
    /\ \E overwrite \in BOOLEAN :
          StepEffect("C3", overwrite, <<>>, c3_updates(tem, c3_target_categories(fda), overwrite), FALSE)

\* run_step_C4_prices(sh)
RunC4 ==
    /\ impl \in {"sc", "ic"}
    /\ StepEffect("C4", FALSE, <<>>, c4_updates(impl, tem, coll, margin), FALSE)

\* run_step_C6_stock_weight_brand(sh)
RunC6 ==
    IF impl = "sc"
    THEN StepEffect("C6", FALSE, <<>>, <<>>, c6_sc_raises(tem))
    ELSE StepEffect("C6", FALSE, <<>>, c6_ic_updates(tem, margin), FALSE)

\* run_step_C5_images: shopee_creator takes one base URL and the shop code,
\* item_creator the shop code and one base URL per kind of image
RunC5 ==
    IF impl = "sc"
    THEN \E base_url \in {ImageConfig.cover_base_url, ImageConfig.details_base_url} :
            StepEffect("C5", FALSE, base_url,
                       c5_sc_updates(tem, coll, base_url, ImageConfig.shop_code),
                       c5_sc_raises(tem))
    ELSE StepEffect("C5", FALSE, <<>>, c5_ic_updates(tem, coll, ImageConfig), FALSE)

StepNext == RunC3 \/ RunC4 \/ RunC5 \/ RunC6

SpecStep == StepInit /\ [][StepNext]_vars

(***************************************************************************)
(* with_retry                                                              *)
(*                                                                         *)
(* The three packages each have their own with_retry; every caller leaves  *)
(* the attempt count at its default.  One action is one pass of the loop:  *)
(* the call of the wrapped function, whose outcome is the environment's    *)
(* choice, and the handling of what it raised.                             *)
(***************************************************************************)
sc_max_tries == 5
ic_retries == 6
iu_retries == 3

Attempts(i) == IF i = "sc" THEN sc_max_tries ELSE IF i = "ic" THEN ic_retries ELSE iu_retries

\* what one call of the wrapped function does: it returns, raises an
\* APIError with the given HTTP status, raises another exception, or raises
\* another exception whose text contains "429"
ApiErrors == {"api429", "api500", "api503", "api404"}
Outcomes == {"ok"} \cup ApiErrors \cup {"other", "other429text"}

Retryable == {"api429", "api500", "api503"}

\* variant: the test for the last attempt is dropped
sc_reraises_NoLast(i, o) == o \in ApiErrors /\ o \notin Retryable

\* shopee_creator: the except branches re-raise on the last attempt, and an
\* APIError also when its status is not 429, 500 or 503
sc_reraises(i, o) ==
    \/ i = sc_max_tries - 1
    \/ o \in ApiErrors /\ o \notin Retryable

\* item_creator: status is 429 for an APIError 429 and for an exception
\* without response whose text contains "429"; only then the sleep grows
ic_sleep_kind(o) == IF o \in {"api429", "other429text"} THEN "backoff" ELSE "fixed"

sleep_kind(i, o) ==
    IF i = "sc" THEN "backoff" ELSE IF i = "ic" THEN ic_sleep_kind(o) ELSE "fixed"

RetryInit ==
    /\ rt_impl \in {"sc", "ic", "iu"}
    /\ rt_i = 0
    /\ rt_calls = <<>>
    /\ rt_sleeps = <<>>
    /\ rt_last_err = <<>>
    /\ rt_status = "running"
    /\ rt_result = <<>>
    /\ CatIdle
    /\ FFIdle
    /\ PipeIdle
    /\ StepIdle
    /\ CsvIdle
    /\ LookIdle

\* "return func()"
RetryReturns(n) ==
    /\ rt_status' = "returned"
    /\ rt_result' = <<"ok", n>>
    /\ UNCHANGED <<rt_i, rt_sleeps, rt_last_err>>

\* "raise" inside the except branch: the error of this call leaves
RetryReraises(o, n) ==
    /\ rt_status' = "raised"
    /\ rt_result' = <<o, n>>
    /\ UNCHANGED <<rt_i, rt_sleeps, rt_last_err>>

\* time.sleep(...), then the next pass of the loop
RetrySleeps(o, n) ==
    /\ rt_sleeps' = Append(rt_sleeps, <<rt_i, sleep_kind(rt_impl, o)>>)
    /\ rt_last_err' = IF rt_impl = "sc" THEN rt_last_err ELSE <<o, n>>
    /\ rt_i' = rt_i + 1
    /\ UNCHANGED <<rt_status, rt_result>>

\* one pass of "for i in range(...)": try the call, handle what it raised
RetryAttempt ==
    /\ rt_status = "running"
    /\ rt_i < Attempts(rt_impl)
    /\ \E o \in Outcomes :
          /\ rt_calls' = Append(rt_calls, o)
          /\ IF o = "ok" THEN RetryReturns(Len(rt_calls) + 1)
             ELSE IF rt_impl = "sc" /\ sc_reraises(rt_i, o)
                  THEN RetryReraises(o, Len(rt_calls) + 1)
                  ELSE RetrySleeps(o, Len(rt_calls) + 1)
    /\ UNCHANGED <<rt_impl, catvars, ffvars, pipevars, stepvars, csvvars, lookvars>>

\* the loop has run out: shopee_creator reaches "return None", the others
\* "if last_err: raise last_err" (and return None when there is none)
RetryExhausted ==
    /\ rt_status = "running"
    /\ rt_i = Attempts(rt_impl)
    /\ IF rt_impl = "sc" \/ rt_last_err = <<>>
       THEN rt_status' = "returned_none" /\ rt_result' = <<>>
       ELSE rt_status' = "raised" /\ rt_result' = rt_last_err
    /\ UNCHANGED <<rt_impl, rt_i, rt_calls, rt_sleeps, rt_last_err, catvars, ffvars, pipevars,
                   stepvars, csvvars, lookvars>>

RetryNext == RetryAttempt \/ RetryExhausted

SpecRetry == RetryInit /\ [][RetryNext]_vars

(***************************************************************************)
(* The CSV export called on the TEM_OUTPUT that C1 and C2 leave            *)
(***************************************************************************)
MaxCsvRows == 2

\* product names with a comma and double quotes, and with a line break
NameQuoted == <<"L", "i", "p", ",", " ", "\"", "R", "\"">>
NameTwoLines == <<"T", "w", "o", "\n", "l", "n">>

CsvRowLip ==
    CollRow(<<"T", "R", "U", "E">>, <<"V", "1">>, <<"S", "1">>, <<"B", "x">>, <<"R", "e", "d">>, NameQuoted, <<"D", "1">>, <<"7", " ", "-", " ", "B", "e", "a", "u", "t", "y", "/", "L", "i", "p">>, <<"3">>, <<"9", "0">>, <<>>)
CsvRowEye ==
    CollRow(<<"T", "R", "U", "E">>, <<"V", "4">>, <<"S", "6">>, <<"B", "y">>, <<"B", "l", "u", "e">>, <<"N", "4">>, <<"D", "4">>, <<"B", "e", "a", "u", "t", "y", "/", "E", "y", "e">>, <<"1">>, <<"7", "0">>, <<>>)
CsvRowGloss ==
    CollRow(<<"T", "R", "U", "E">>, <<"V", "6">>, <<"S", "8">>, <<"B", "z">>, <<"P", "i", "n", "k">>, NameTwoLines, <<"D", "6">>, <<"B", "e", "a", "u", "t", "y", "/", "L", "i", "p", "-", "G", "l", "o", "s", "s">>, <<"1">>, <<"6", "0">>, <<>>)
CsvRowToys ==
    CollRow(<<"T", "R", "U", "E">>, <<"V", "2">>, <<"S", "3">>, <<"B", "t">>, <<"C", "a", "r">>, <<"N", "2">>, <<"D", "2">>, <<"T", "o", "y", "s", "/", "C", "a", "r">>, <<"2">>, <<"4", "0">>, <<"5", "0">>)
CsvRowCode ==
    CollRow(<<"T", "R", "U", "E">>, <<"V", "7">>, <<"S", "9">>, <<"B", "c">>, <<"K", "i", "t">>, <<>>, <<"D", "7">>, <<"1", "2", "-", " ", "T", "o", "y", "s", "/", "K", "i", "t">>, <<"2">>, <<"4", "0">>, <<"5", "0">>)

CsvRows == {CsvRowLip, CsvRowEye, CsvRowGloss, CsvRowToys, CsvRowCode}

\* Collection sheets of 1 .. MaxCsvRows different rows
CsvCollections ==
    UNION {{<<CollHeader>> \o s : s \in {q \in [1..n -> CsvRows] : \A i, j \in 1..n : q[i] = q[j] => i = j}} :
           n \in 1..MaxCsvRows}

CsvTemplateDict ==
    get_all_values(<< TemplateDictHeader,
                      << <<"B", "e", "a", "u", "t", "y">>, <<"C", "a", "t", "e", "g", "o", "r", "y">>, <<"S", "K", "U">>, <<"P", "r", "o", "d", "u", "c", "t", " ", "N", "a", "m", "e">>, <<"B", "r", "a", "n", "d">> >>,
                      << <<"T", "o", "y", "s">>, <<"C", "a", "t", "e", "g", "o", "r", "y">>, <<"P", "r", "o", "d", "u", "c", "t", " ", "N", "a", "m", "e">>, <<"S", "t", "o", "c", "k">>, <<"S", "K", "U">> >> >>)

CsvInit ==
    /\ impl \in {"sc", "ic"}
    /\ pc = "export"
    /\ coll \in CsvCollections
    /\ margin = <<>>
    /\ tdict_exists = TRUE
    /\ tdict = CsvTemplateDict
    /\ fda = <<>>
    /\ mdefaults = <<>>
    /\ cat_props = <<>>
    /\ tem_exists = TRUE
    /\ tem = tem_after_c2(impl, tdict, coll)
    /\ fails_exists = FALSE /\ fails = <<>>
    /\ c2 = C2Nothing
    /\ prior = <<>>
    /\ written = {}
    /\ logs = <<>>
    /\ csv_bytes = <<>>
    /\ csv_rows = <<>>
    /\ CatIdle
    /\ FFIdle
    /\ StepIdle
    /\ RetryIdle
    /\ LookIdle

\* export_tem_csv(sh) of shopee_creator, ShopeeCreator.get_tem_values_csv()
\* of item_creator
ExportCsv ==
    /\ pc = "export"
    /\ csv_bytes' = IF impl = "sc" THEN export_tem_csv(tem) ELSE get_tem_values_csv(tem)
    /\ pc' = "exported"
    /\ UNCHANGED <<csv_rows, impl, coll, margin, tdict_exists, tdict, fda, mdefaults, cat_props, tem_exists,
                   tem, fails_exists, fails, c2, prior, written, logs, catvars, ffvars, stepvars,
                   retryvars, lookvars>>

\* the exported file is read back with csv.reader
ReadCsv ==
    /\ pc = "exported"
    /\ csv_bytes # <<>>
    /\ csv_rows' = csv_reader(decode_utf8_sig(csv_bytes))
    /\ pc' = "read"
    /\ UNCHANGED <<csv_bytes, impl, coll, margin, tdict_exists, tdict, fda, mdefaults, cat_props, tem_exists,
                   tem, fails_exists, fails, c2, prior, written, logs, catvars, ffvars, stepvars,
                   retryvars, lookvars>>

CsvNext == ExportCsv \/ ReadCsv

SpecCsv == CsvInit /\ [][CsvNext]_vars

(***************************************************************************)
(* Column lookup called on header rows                                     *)
(***************************************************************************)
MaxHeaders == 3

CONSUMER_PRICE == <<HANGUL, HANGUL, HANGUL, HANGUL>>

LookHeaderCells ==
    { <<"S", "K", "U">>, <<"S", "e", "l", "l", "e", "r", "_", "S", "K", "U">>, <<"M", "y", " ", "S", "K", "U">>, <<>>, <<"P", "r", "i", "c", "e">>, CONSUMER_PRICE }

LookHeaderRows == SeqsUpTo(LookHeaderCells, MaxHeaders) \ {<<>>}

\* lookups the steps make: name and extra_alias
Lookups ==
    { [name |-> <<"s", "k", "u">>, alias |-> << <<"s", "e", "l", "l", "e", "r", "_", "s", "k", "u">> >>],
      [name |-> CONSUMER_PRICE, alias |-> << <<"c", "o", "n", "s", "u", "m", "e", "r", " ", "p", "r", "i", "c", "e">>, <<"p", "r", "i", "c", "e">> >>],
      [name |-> <<"p", "r", "i", "c", "e">>, alias |-> << <<"s", "e", "l", "l", "i", "n", "g", " ", "p", "r", "i", "c", "e">> >>] }

LookInit ==
    /\ lk_headers \in LookHeaderRows
    /\ \E l \in Lookups : lk_name = l.name /\ lk_alias = l.alias
    /\ lk_fn = ""
    /\ lk_result = 0
    /\ CatIdle
    /\ FFIdle
    /\ PipeIdle
    /\ StepIdle
    /\ RetryIdle
    /\ CsvIdle

Looked(fn, result) ==
    /\ lk_fn = ""
    /\ lk_fn' = fn
    /\ lk_result' = result
    /\ UNCHANGED <<lk_headers, lk_name, lk_alias, catvars, ffvars, pipevars, stepvars, retryvars,
                   csvvars>>

SeqToSet(s) == {s[i] : i \in 1..Len(s)}

\* _find_col_index([header_key(h) for h in row], name, extra_alias) of
\* shopee_creator
LookFindSc ==
    /\ lk_fn = ""
    /\ Looked("sc_find", find_col_index("sc", KeysOf("sc", lk_headers), lk_name, SeqToSet(lk_alias)))

\* the same call in item_creator
LookFindIc ==
    /\ lk_fn = ""
    /\ Looked("ic_find", find_col_index("ic", KeysOf("ic", lk_headers), lk_name, SeqToSet(lk_alias)))

\* _pick_index_by_candidates(row, [name] + aliases) of shopee_creator
LookPick ==
    /\ lk_fn = ""
    /\ Looked("sc_pick", pick_index_by_candidates(lk_headers, <<lk_name>> \o lk_alias))

LookNext == LookFindSc \/ LookFindIc \/ LookPick

SpecLookup == LookInit /\ [][LookNext]_vars

(***************************************************************************)
(* Forward fill, stated on the input table                                 *)
(***************************************************************************)
FFDataRows == 2..Len(ff_in)

FFIsBlankCell(c) == strip(c) = <<>>

\* the reset predicate the call that ran was given
FFKind == IF ff_run = "ic_create" THEN "blank_or_not_create" ELSE "blank"

FFIsReset(i) == reset_when(FFKind, FFCreateCol, ff_in[i])

FFOwnId(i) == strip(ff_in[i][FFGroupCol])

\* The variation group of data row i: its own id, or for a blank id the
\* group of the row above; <<>> for a reset row and for a row with no group.
RECURSIVE FFGroupOf(_)
FFGroupOf(i) ==
    IF i < 2 \/ FFIsReset(i) THEN <<>>
    ELSE IF FFOwnId(i) # <<>> THEN FFOwnId(i)
    ELSE FFGroupOf(i - 1)

\* data row i continues the group of row i - 1: blank id or the same id
FFContinues(i) ==
    /\ i > 2
    /\ ~FFIsReset(i)
    /\ ~FFIsReset(i - 1)
    /\ FFGroupOf(i - 1) # <<>>
    /\ (FFOwnId(i) = <<>> \/ FFOwnId(i) = FFGroupOf(i - 1))

\* rows j..i are one unbroken run of one variation group
FFSameRun(j, i) == j < i /\ \A k \in (j + 1)..i : FFContinues(k)

FFSources(i, c) == {j \in FFDataRows : FFSameRun(j, i) /\ ~FFIsBlankCell(ff_in[j][c])}

FFNearest(i, c) == CHOOSE j \in FFSources(i, c) : \A k \in FFSources(i, c) : k <= j

FFExpected(i, c) ==
    IF FFSources(i, c) = {} THEN <<>> ELSE strip(ff_in[FFNearest(i, c)][c])

FFInGroup(i) == ~FFIsReset(i) /\ FFGroupOf(i) # <<>>

\* C3: with the blank-row reset, in every row of a variation group each
\* blank cell of a fill column ends equal to the nearest preceding non-blank
\* value of the same group and the same unbroken run, and stays blank when
\* there is none.
C3_ForwardFill ==
    ff_run \in {"sc_blank", "ic_blank"} =>
        \A i \in FFDataRows : \A c \in FFFillCols :
            (FFInGroup(i) /\ FFIsBlankCell(ff_in[i][c])) =>
                strip(ff_out[i][c]) = FFExpected(i, c)

\* C4: a cell that forward fill has filled holds a value of its own group
\* and its own unbroken run: nothing crosses into a row whose id differs
\* from the row above, and nothing crosses a reset row.
C4_NoLeak ==
    ff_run # "" =>
        \A i \in FFDataRows : \A c \in FFFillCols :
            (FFInGroup(i) /\ FFIsBlankCell(ff_in[i][c]) /\ ~FFIsBlankCell(ff_out[i][c])) =>
                (FFSources(i, c) # {} /\ strip(ff_out[i][c]) = FFExpected(i, c))

\* the two halves per implementation
C3_HoldsIc == ff_run = "ic_blank" => C3_ForwardFill
C3_HoldsSc == ff_run = "sc_blank" => C3_ForwardFill
C4_HoldsIc == ff_run \in {"ic_blank", "ic_create"} => C4_NoLeak
C4_HoldsSc == ff_run = "sc_blank" => C4_NoLeak

(***************************************************************************)
(* Steps C1 and C2 of a pipeline run                                       *)
(***************************************************************************)
\* run_step_C2 of this run reached its row loop
C2Ran == pc # "" /\ c2.ran

\* rows of TEM_OUTPUT that open a header block, and the data rows
TemHeaderRows == {t \in 1..Len(tem) : tem[t][1] = <<"P", "I", "D">>}
TemDataRows == (1..Len(tem)) \ TemHeaderRows

CollDataRows == 2..Len(coll)

\* the k-th element of a set of row numbers, in sheet order
KthRow(S, k) == CHOOSE r \in S : Cardinality({x \in S : x < r}) = k - 1

C2_CreateRows == {r \in CollDataRows : is_true(impl, CellAt(c2.ff_vals[r], c2.create_i))}

C2_Category(r) == strip(CellAt(c2.ff_vals[r], c2.category_i))

C2_TopKey(r) == header_key(impl, top_of_category(impl, C2_Category(r)))

C2_HasSchema(r) ==
    /\ C2_TopKey(r) \in DOMAIN load_template_dict(impl, tdict)
    /\ load_template_dict(impl, tdict)[C2_TopKey(r)] # <<>>

C2_Outcome(r) ==
    IF C2_Category(r) = <<>> THEN "CATEGORY_MISSING"
    ELSE IF ~C2_HasSchema(r) THEN "TEMPLATE_TOPLEVEL_NOT_FOUND"
    ELSE "created"

C2_FailedRows == {r \in C2_CreateRows : C2_Outcome(r) # "created"}

C2_Reason(r) ==
    IF C2_Outcome(r) = "CATEGORY_MISSING" THEN <<"C", "A", "T", "E", "G", "O", "R", "Y", "_", "M", "I", "S", "S", "I", "N", "G">>
    ELSE <<"T", "E", "M", "P", "L", "A", "T", "E", "_", "T", "O", "P", "L", "E", "V", "E", "L", "_", "N", "O", "T", "_", "F", "O", "U", "N", "D">>

\* C2: each create-true row does exactly one of three things: an empty
\* category after forward-fill gives one CATEGORY_MISSING failure and no
\* output row; otherwise a top-level key without a TemplateDict schema gives
\* one TEMPLATE_TOPLEVEL_NOT_FOUND failure and no output row; otherwise one
\* output row and no failure.  Created rows + failures = create-true rows.
C2_ExactlyOneOutcome ==
    C2Ran =>
        /\ \A r \in C2_CreateRows : c2.trace[r - 1] = C2_Outcome(r)
        /\ Len(c2.failures) = Cardinality(C2_FailedRows)
        /\ \A k \in 1..Len(c2.failures) :
              c2.failures[k][4] = C2_Reason(KthRow(C2_FailedRows, k))
        /\ Cardinality(TemDataRows) = Cardinality(C2_CreateRows \ C2_FailedRows)
        /\ Cardinality(TemDataRows) + Len(c2.failures) = Cardinality(C2_CreateRows)

\* one run in which all three outcomes occur
C2_Witness ==
    /\ C2Ran
    /\ \E r, s, t \in C2_CreateRows :
          /\ c2.trace[r - 1] = "CATEGORY_MISSING"
          /\ c2.trace[s - 1] = "TEMPLATE_TOPLEVEL_NOT_FOUND"
          /\ c2.trace[t - 1] = "created"

\* a row without the blank cells that pad it to the sheet width
Trim(row) == SubSeq(row, 1, LastNonEmpty(row))

\* top-level key of a TEM_OUTPUT data row, from the cell under "Category"
C5_RowKey(t) == header_key(impl, top_of_category(impl, strip(tem[t][2])))

\* the header row a data row lies under (0 if none)
C5_HeaderOf(t) ==
    IF \E h \in TemHeaderRows : h < t THEN MaxOf({h \in TemHeaderRows : h < t}) ELSE 0

\* C5: after C2, TEM_OUTPUT is a concatenation of header blocks: one block
\* per top-level category with an output row; each header row is the row
\* identifier column followed by that category's TemplateDict schema; each
\* data row lies under the header of its own category; no block is empty.
C5_HeaderBlocks ==
    (C2Ran /\ c2.out_matrix # <<>>) =>
        /\ Cardinality(TemHeaderRows) = Cardinality({C5_RowKey(t) : t \in TemDataRows})
        /\ \A t \in TemDataRows :
              /\ C5_HeaderOf(t) # 0
              /\ C5_RowKey(t) \in DOMAIN load_template_dict(impl, tdict)
              /\ Trim(tem[C5_HeaderOf(t)])
                   = Trim(<<<<"P", "I", "D">>>> \o load_template_dict(impl, tdict)[C5_RowKey(t)])
        /\ \A h \in TemHeaderRows : h + 1 \in TemDataRows

\* two header blocks, three data rows
C5_Witness ==
    /\ C2Ran
    /\ Cardinality(TemHeaderRows) = 2
    /\ Cardinality(TemDataRows) = 3

\* Collection column holding a field, by its header text
C6_ColOf(name) == CHOOSE j \in 1..Len(coll[1]) : coll[1][j] = name

\* the Collection columns a row inherits from the rows above it
C6_Inherited == { <<"C", "a", "t", "e", "g", "o", "r", "y">>, <<"P", "r", "o", "d", "u", "c", "t", " ", "N", "a", "m", "e">>, <<"D", "e", "s", "c", "r", "i", "p", "t", "i", "o", "n">>, <<"B", "r", "a", "n", "d">> }

\* the values a field of Collection row r can have: its own cell or, for an
\* inherited column left blank, the cell of a data row above it
C6_Field(r, name) ==
    IF strip(coll[r][C6_ColOf(name)]) # <<>> \/ name \notin C6_Inherited
    THEN {strip(coll[r][C6_ColOf(name)])}
    ELSE {<<>>} \cup {strip(coll[q][C6_ColOf(name)]) : q \in 2..(r - 1)}

\* the Collection row behind the n-th output row of bucket b
C6_SourceRow(b, n) ==
    KthRow({r \in C2_CreateRows : C2_Outcome(r) = "created" /\ C2_TopKey(r) = c2.buckets[b].key},
           n)

\* schema header and the Collection column whose value belongs under it
C6_Exact ==
    { <<<<"C", "a", "t", "e", "g", "o", "r", "y">>, <<"C", "a", "t", "e", "g", "o", "r", "y">>>>, <<<<"P", "r", "o", "d", "u", "c", "t", " ", "N", "a", "m", "e">>, <<"P", "r", "o", "d", "u", "c", "t", " ", "N", "a", "m", "e">>>>,
      <<<<"P", "r", "o", "d", "u", "c", "t", " ", "D", "e", "s", "c", "r", "i", "p", "t", "i", "o", "n">>, <<"D", "e", "s", "c", "r", "i", "p", "t", "i", "o", "n">>>>, <<<<"S", "K", "U">>, <<"S", "K", "U">>>>,
      <<<<"B", "r", "a", "n", "d">>, <<"B", "r", "a", "n", "d">>>> }

\* the fields C2 maps, by the name it looks them up with
C6_Mapped ==
    { <<"c", "a", "t", "e", "g", "o", "r", "y">>, <<"p", "r", "o", "d", "u", "c", "t", " ", "n", "a", "m", "e">>, <<"p", "r", "o", "d", "u", "c", "t", " ", "d", "e", "s", "c", "r", "i", "p", "t", "i", "o", "n">>, <<"v", "a", "r", "i", "a", "t", "i", "o", "n", " ", "i", "n", "t", "e", "g", "r", "a", "t", "i", "o", "n">>,
      <<"v", "a", "r", "i", "a", "t", "i", "o", "n", " ", "n", "a", "m", "e", "1">>, <<"o", "p", "t", "i", "o", "n", " ", "f", "o", "r", " ", "v", "a", "r", "i", "a", "t", "i", "o", "n", " ", "1">>, <<"s", "k", "u">>, <<"b", "r", "a", "n", "d">> }

C6_RowOk(b, n, headers, row) ==
    /\ Len(row) = Len(headers)
    /\ \A j \in 1..Len(headers) : \A e \in C6_Exact :
          header_key(impl, headers[j]) = header_key(impl, e[1])
              => row[j] \in C6_Field(C6_SourceRow(b, n), e[2])
    /\ \A j \in 1..Len(headers) :
          row[j] # <<>> =>
              \E m \in C6_Mapped : Contains(header_key(impl, headers[j]), header_key(impl, m))

\* C6: each output row has as many cells as its schema has columns; the cells
\* under headers that exactly match Category, Product Name, Product
\* Description, SKU and Brand hold the row's category, product name,
\* description, sku and brand; cells under unmapped headers are blank.
C6_CellMapping ==
    C2Ran =>
        \A b \in 1..Len(c2.buckets) : \A n \in 1..Len(c2.buckets[b].rows) :
            C6_RowOk(b, n, c2.buckets[b].headers, c2.buckets[b].rows[n])

\* an output row with all five fields set and a blank cell under "Price"
C6_Witness ==
    /\ C2Ran
    /\ \E b \in 1..Len(c2.buckets) : \E n \in 1..Len(c2.buckets[b].rows) :
          /\ \A e \in C6_Exact : \E j \in 1..Len(c2.buckets[b].headers) :
                /\ c2.buckets[b].headers[j] = e[1]
                /\ c2.buckets[b].rows[n][j] # <<>>
          /\ \E j \in 1..Len(c2.buckets[b].headers) :
                /\ c2.buckets[b].headers[j] = <<"P", "r", "i", "c", "e">>
                /\ c2.buckets[b].rows[n][j] = <<>>

(***************************************************************************)
(* Frame of the steps and rebuild of TEM_OUTPUT                            *)
(***************************************************************************)
\* the worksheets a run reads: Collection, MARGIN and the reference tabs
C7_Inputs == <<coll, margin, tdict, fda, mdefaults, cat_props>>

\* C7: no step (C1 to C7, under either controller) changes the Collection
\* worksheet, the MARGIN worksheet or a worksheet of the reference
\* spreadsheet, and the only worksheets that receive a write call (clear,
\* resize, add, update, format) are TEM_OUTPUT and Failures.
C7_OnlyOutputsWritten ==
    [][C7_Inputs' = C7_Inputs /\ written' \subseteq {"TEM_OUTPUT", "Failures"}]_vars

\* a run of item_creator has ended after writing rows to TEM_OUTPUT and a
\* failure to Failures, back-fill steps included
C7_Witness ==
    /\ impl = "ic" /\ pc = "done"
    /\ written = {"TEM_OUTPUT", "Failures"}
    /\ TemDataRows # {} /\ Len(fails) > 1
    /\ tem # c2_write_tem(<<>>, c2.out_matrix)

\* step C7 has filled a default into the TEM_OUTPUT of shopee_creator
C7_WitnessDefaults ==
    /\ impl = "sc" /\ pc = "C7_done"
    /\ \E t \in TemDataRows : \E j \in 1..Len(tem[t]) : tem[t][j] = mdefaults[2][3]

C8_sc3(t2) == write_updates(t2, c3_updates(t2, c3_target_categories(fda), FALSE))

C8_sc4(t3) == write_updates(t3, c4_updates("sc", t3, coll, margin))

C8_ic4(t2) == write_updates(t2, c4_updates("ic", t2, coll, margin))

C8_ic5(t4) == write_updates(t4, c5_ic_updates(t4, coll, ImageConfig))

C8_ic6(t5) == write_updates(t5, c6_ic_updates(t5, margin))

\* TEM_OUTPUT at the end of the same run in a spreadsheet that had no
\* TEM_OUTPUT worksheet before
C8_FromScratch ==
    IF impl = "sc"
    THEN C8_sc4(C8_sc3(c2_write_tem(c1_tem(FALSE, <<>>), c2_build(impl, tdict, coll).out_matrix)))
    ELSE C8_ic6(C8_ic5(C8_ic4(c2_write_tem(c1_tem(FALSE, <<>>), c2_build(impl, tdict, coll).out_matrix))))

\* the non-blank cell values TEM_OUTPUT held when the run began
C8_PriorCells ==
    UNION {{prior.tem[t][j] : j \in 1..Len(prior.tem[t])} : t \in 1..Len(prior.tem)} \ {<<>>}

\* C8: when a pipeline run has completed, TEM_OUTPUT is what the same run
\* leaves in a spreadsheet without a prior TEM_OUTPUT, so runs that differ
\* only in the prior content end alike, and no cell holds a value of the
\* prior content, also when C2 has produced no output row.
C8_FullRebuild ==
    pc = "done" =>
        /\ tem = C8_FromScratch
        /\ \A t \in 1..Len(tem) : \A j \in 1..Len(tem[t]) : tem[t][j] \notin C8_PriorCells

\* a run over the cells of an earlier run has completed with fewer rows
\* than the earlier content had
C8_Witness ==
    /\ pc = "done" /\ prior.tem_exists /\ C8_PriorCells # {}
    /\ TemDataRows # {} /\ Len(tem) < Len(prior.tem)

\* a run over the cells of an earlier run has completed without an output row
C8_WitnessNoRow ==
    /\ pc = "done" /\ prior.tem_exists /\ C8_PriorCells # {}
    /\ c2.ran /\ c2.out_matrix = <<>>

\* C9: after Step C1 completes, TEM_OUTPUT exists, whether or not it existed
\* before, and holds no non-blank cell.
C9_TemBlankAfterC1 ==
    pc = "C2" => tem_exists /\ tem = <<>>

\* C1 has run over a TEM_OUTPUT that held cells of an earlier run
C9_Witness ==
    pc = "C2" /\ prior.tem_exists /\ prior.tem # <<>>

\* C1 has run where TEM_OUTPUT did not exist
C9_WitnessCreated ==
    pc = "C2" /\ ~prior.tem_exists /\ tem_exists


(***************************************************************************)
(* The back-fill steps called on their own (SpecStep)                      *)
(***************************************************************************)
\* the calls of one step function among the calls made so far
StepCalls(step) == {k \in 1..Len(runs) : runs[k].step = step}

\* TEM_OUTPUT as call k left it
StepAfter(k) == IF k < Len(runs) THEN runs[k + 1].before ELSE tem

\* the data rows of a TEM_OUTPUT matrix: the rows that are no block header
DataRowsOf(vals) == {t \in 1..Len(vals) : vals[t][1] # <<"P", "I", "D">>}

\* the header row of the block row t lies in
BlockHeaderOf(vals, t) == MaxOf({h \in 1..t : vals[h][1] = <<"P", "I", "D">>})

\* the sheet column of the block's header called name, 0 if it has none
BlockColumn(vals, t, name) ==
    FirstIn({c \in 2..Len(vals[t]) : vals[BlockHeaderOf(vals, t)][c] = name})

\* the cell of data row t under its block's header called name
BlockCell(vals, t, name) ==
    IF BlockColumn(vals, t, name) = 0 THEN <<>> ELSE vals[t][BlockColumn(vals, t, name)]

RowsWritten(updates) == {updates[u][1] : u \in 1..Len(updates)}

(***************************************************************************)
(* C11                                                                     *)
(***************************************************************************)
C11_Regulated == {fda[r][1] : r \in 1..Len(fda)}

C11_IsRegulated(vals, t) ==
    /\ BlockCell(vals, t, <<"C", "a", "t", "e", "g", "o", "r", "y">>) \in C11_Regulated
    /\ BlockColumn(vals, t, <<"F", "D", "A", " ", "R", "e", "g", "i", "s", "t", "r", "a", "t", "i", "o", "n", " ", "N", "o", ".">>) # 0

C11_FdaOf(vals, t) == BlockCell(vals, t, <<"F", "D", "A", " ", "R", "e", "g", "i", "s", "t", "r", "a", "t", "i", "o", "n", " ", "N", "o", ".">>)

C11_RowOk(k, t) ==
    IF C11_IsRegulated(runs[k].before, t)
    THEN IF runs[k].overwrite
         THEN C11_FdaOf(StepAfter(k), t) = <<"1", "0", "-", "1", "-", "9", "9", "9", "9", "9", "9", "9">>
         ELSE /\ C11_FdaOf(StepAfter(k), t) # <<>>
              /\ C11_FdaOf(StepAfter(k), t) =
                    IF C11_FdaOf(runs[k].before, t) = <<>> THEN <<"1", "0", "-", "1", "-", "9", "9", "9", "9", "9", "9", "9">>
                    ELSE C11_FdaOf(runs[k].before, t)
    ELSE /\ t \notin RowsWritten(runs[k].updates)
         /\ StepAfter(k)[t] = runs[k].before[t]

\* C11: after run_step_C3_fda with overwrite off every data row of a
\* regulated category has a non-empty FDA Registration No. cell, the sentinel
\* 10-1-9999999 where the cell was empty and the old value where it was not;
\* with overwrite on every such row holds the sentinel; a row of any other
\* category is not written.
C11_FdaBackfill ==
    \A k \in StepCalls("C3") : \A t \in DataRowsOf(runs[k].before) : C11_RowOk(k, t)

\* one call with overwrite off found a regulated row with a typed-in value,
\* a regulated row with an empty cell and a row of another category
C11_Witness ==
    \E k \in StepCalls("C3") :
        /\ ~runs[k].overwrite
        /\ \E t \in DataRowsOf(runs[k].before) :
              C11_IsRegulated(runs[k].before, t) /\ C11_FdaOf(runs[k].before, t) = HandTyped
        /\ \E t \in DataRowsOf(runs[k].before) :
              /\ C11_IsRegulated(runs[k].before, t)
              /\ C11_FdaOf(runs[k].before, t) = <<>>
              /\ C11_FdaOf(StepAfter(k), t) = <<"1", "0", "-", "1", "-", "9", "9", "9", "9", "9", "9", "9">>
        /\ \E t \in DataRowsOf(runs[k].before) :
              /\ ~C11_IsRegulated(runs[k].before, t)
              /\ BlockColumn(runs[k].before, t, <<"F", "D", "A", " ", "R", "e", "g", "i", "s", "t", "r", "a", "t", "i", "o", "n", " ", "N", "o", ".">>) # 0

\* one call with overwrite on replaced a typed-in value
C11_WitnessOverwrite ==
    \E k \in StepCalls("C3") :
        /\ runs[k].overwrite
        /\ \E t \in DataRowsOf(runs[k].before) :
              /\ C11_IsRegulated(runs[k].before, t)
              /\ C11_FdaOf(runs[k].before, t) = HandTyped
              /\ C11_FdaOf(StepAfter(k), t) = <<"1", "0", "-", "1", "-", "9", "9", "9", "9", "9", "9", "9">>

(***************************************************************************)
(* C12                                                                     *)
(***************************************************************************)
\* the MARGIN rows of a SKU that carry a price
C12_MarginRows(sku) == {r \in 2..Len(margin) : margin[r][1] = sku /\ margin[r][2] # <<>>}

C12_MarginPrice(sku) == margin[MaxOf(C12_MarginRows(sku))][2]

\* the block's price column: the one headed Price, else Original Price
C12_PriceColumn(vals, t) ==
    IF BlockColumn(vals, t, <<"P", "r", "i", "c", "e">>) # 0 THEN BlockColumn(vals, t, <<"P", "r", "i", "c", "e">>)
    ELSE BlockColumn(vals, t, <<"O", "r", "i", "g", "i", "n", "a", "l", " ", "P", "r", "i", "c", "e">>)

C12_Sku(vals, t) == BlockCell(vals, t, <<"S", "K", "U">>)

C12_RowOk(k, t) ==
    IF C12_Sku(runs[k].before, t) # <<>> /\ C12_MarginRows(C12_Sku(runs[k].before, t)) # {}
    THEN C12_PriceColumn(runs[k].before, t) # 0 =>
            StepAfter(k)[t][C12_PriceColumn(runs[k].before, t)]
                = C12_MarginPrice(C12_Sku(runs[k].before, t))
    ELSE \/ C12_Sku(runs[k].before, t) # <<>> /\ \E r \in 2..Len(margin) : margin[r][1] = C12_Sku(runs[k].before, t)
         \/ t \notin RowsWritten(runs[k].updates)

C12_BatchDiffers(k) ==
    \A u \in 1..Len(runs[k].updates) :
        runs[k].before[runs[k].updates[u][1]][runs[k].updates[u][2]] # runs[k].updates[u][3]

\* C12: after run_step_C4_prices every data row whose SKU has a non-empty
\* price in MARGIN holds that price in its block's price column, the batch
\* holds only cells whose value differs from the looked-up one, and a row
\* whose SKU is not in MARGIN is not written.
C12_PricesFromMargin ==
    \A k \in StepCalls("C4") :
        /\ \A t \in DataRowsOf(runs[k].before) : C12_RowOk(k, t)
        /\ C12_BatchDiffers(k)

C12_HoldsIc == impl = "ic" => C12_PricesFromMargin

\* item_creator: one call wrote a MARGIN price and left alone a row whose
\* SKU MARGIN does not list
C12_WitnessIc ==
    /\ impl = "ic"
    /\ \E k \in StepCalls("C4") :
        /\ \E t \in DataRowsOf(runs[k].before) :
              /\ C12_MarginRows(C12_Sku(runs[k].before, t)) # {}
              /\ t \in RowsWritten(runs[k].updates)
        /\ \E t \in DataRowsOf(runs[k].before) :
              /\ C12_Sku(runs[k].before, t) # <<>>
              /\ \A r \in 2..Len(margin) : margin[r][1] # C12_Sku(runs[k].before, t)

(***************************************************************************)
(* C13                                                                     *)
(***************************************************************************)
\* the calls of C4 that directly follow another call of C4
C13_SecondCalls == {k \in StepCalls("C4") : k > 1 /\ runs[k - 1].step = "C4"}

\* C13: a call of run_step_C4_prices on the TEM_OUTPUT a first call left,
\* the lookup data unchanged, builds an empty batch, whatever the layout of
\* the blocks.
C13_SecondRunEmpty == \A k \in C13_SecondCalls : runs[k].updates = <<>>

C13_HoldsIc == impl = "ic" => C13_SecondRunEmpty

\* item_creator: the first of two calls wrote a price under an Original
\* Price header of a block without Price header
C13_WitnessIc ==
    /\ impl = "ic"
    /\ \E k \in C13_SecondCalls : \E t \in RowsWritten(runs[k - 1].updates) :
          /\ BlockColumn(runs[k].before, t, <<"P", "r", "i", "c", "e">>) = 0
          /\ BlockCell(runs[k].before, t, <<"O", "r", "i", "g", "i", "n", "a", "l", " ", "P", "r", "i", "c", "e">>) # <<>>

C12_BatchDiffersAlways == \A k \in StepCalls("C4") : C12_BatchDiffers(k)

(***************************************************************************)
(* C14                                                                     *)
(***************************************************************************)
\* the cell of row t under name holds val, if the block has that header
C14_HoldsWhereHeaded(vals, t, name, val) ==
    BlockColumn(vals, t, name) # 0 => BlockCell(vals, t, name) = val

C14_RowsWithSku(vals) == {t \in DataRowsOf(vals) : BlockCell(vals, t, <<"S", "K", "U">>) # <<>>}

C14_NoRaise == \A k \in StepCalls("C6") : ~runs[k].raised

C14_Stock ==
    \A k \in StepCalls("C6") : \A t \in C14_RowsWithSku(runs[k].before) :
        C14_HoldsWhereHeaded(StepAfter(k), t, <<"S", "t", "o", "c", "k">>, <<"1", "0", "0", "0">>)

C14_Days ==
    \A k \in StepCalls("C6") : \A t \in C14_RowsWithSku(runs[k].before) :
        C14_HoldsWhereHeaded(StepAfter(k), t, <<"D", "a", "y", "s", " ", "t", "o", " ", "s", "h", "i", "p">>, <<"1">>)

\* C14: run_step_C6_stock_weight_brand completes without raising on the
\* TEM_OUTPUT C2 produced, and afterwards every data row with a SKU holds
\* 1000 under Stock and 1 under Days to ship, where its block has the header.
C14_StockAndDays == C14_NoRaise /\ C14_Stock /\ C14_Days

C14_StockIc == impl = "ic" => C14_NoRaise /\ C14_Stock
C14_DaysIc == impl = "ic" => C14_Days
C14_NoRaiseSc == impl = "sc" => C14_NoRaise

(***************************************************************************)
(* C15                                                                     *)
(***************************************************************************)
C15_BrandOf(vals, t) == BlockCell(vals, t, <<"B", "r", "a", "n", "d">>)

\* the batch entries of call k that write the placeholder into row t's
\* brand cell
C15_Placeholders(k, t) ==
    {u \in 1..Len(runs[k].updates) :
        runs[k].updates[u] = <<t, BlockColumn(runs[k].before, t, <<"B", "r", "a", "n", "d">>), <<"0">>>>}

\* C15: run_step_C6_stock_weight_brand writes the placeholder 0 into a brand
\* cell only when the cell is empty, and a brand C2 wrote is still in the
\* cell after C6.
C15_BrandKept ==
    \A k \in StepCalls("C6") : \A t \in DataRowsOf(runs[k].before) :
        C15_BrandOf(runs[k].before, t) # <<>> =>
            /\ C15_Placeholders(k, t) = {}
            /\ C15_BrandOf(StepAfter(k), t) = C15_BrandOf(runs[k].before, t)

C15_HoldsSc == impl = "sc" => C15_BrandKept

\* the placeholder is written into the empty brand cells of rows with a SKU
C15_EmptyFilledIc ==
    impl = "ic" =>
        \A k \in StepCalls("C6") : \A t \in C14_RowsWithSku(runs[k].before) :
            C15_BrandOf(runs[k].before, t) = <<>> =>
                C14_HoldsWhereHeaded(StepAfter(k), t, <<"B", "r", "a", "n", "d">>, <<"0">>)

(***************************************************************************)
(* C16                                                                     *)
(***************************************************************************)
\* the base URL call k uses for the detail images
C16_Base(k) == IF impl = "sc" THEN runs[k].base_url ELSE ImageConfig.details_base_url

\* base and file name with one slash between them
ImageUrl(base, name) == rstrip_slash(base) \o <<"/">> \o name

\* the Collection rows that carry variation id v: the first opens the group
C16_GroupRows(v) == {r \in 2..Len(coll) : coll[r][C6_ColOf(<<"V", "a", "r", "i", "a", "t", "i", "o", "n">>)] = v}

\* the Details Index of the group of v, clamped to 0..8 (0 if blank)
C16_Count(v) ==
    IF C16_GroupRows(v) = {} THEN 0
    ELSE c5_sc_dcount(coll[MinOf(C16_GroupRows(v))][C6_ColOf(<<"D", "e", "t", "a", "i", "l", "s", " ", "I", "n", "d", "e", "x">>)])

C16_ItemName(n) == <<"I", "t", "e", "m", " ", "I", "m", "a", "g", "e", " ">> \o IntToStr(n)

C16_VarOf(vals, t) == BlockCell(vals, t, <<"V", "a", "r", "i", "a", "t", "i", "o", "n", " ", "I", "n", "t", "e", "g", "r", "a", "t", "i", "o", "n", " ", "N", "o", ".">>)

\* the data rows with a variation id in blocks that have item image columns
C16_Rows(vals) ==
    {t \in DataRowsOf(vals) :
        C16_VarOf(vals, t) # <<>> /\ BlockColumn(vals, t, C16_ItemName(1)) # 0}

C16_RowOk(k, t) ==
    \A n \in 1..8 :
        BlockCell(StepAfter(k), t, C16_ItemName(n)) =
            IF n <= C16_Count(C16_VarOf(runs[k].before, t))
            THEN ImageUrl(C16_Base(k),
                          C16_VarOf(runs[k].before, t) \o <<"_", "D">> \o IntToStr(n) \o <<".", "j", "p", "g">>)
            ELSE <<>>

\* C16: after C5 the Item Image n cell of a data row with variation id V is
\* {base}/{V}_D{n}.jpg for n up to the Details Index of V's group clamped
\* to 0..8 and empty above it; the count is the group's even when only the
\* group's first row carries it.
C16_DetailImages ==
    \A k \in StepCalls("C5") : ~runs[k].raised =>
        \A t \in C16_Rows(runs[k].before) : C16_RowOk(k, t)

\* no variation id stands in two Collection rows
C16_NoRepeat == \A v \in {coll[r][C6_ColOf(<<"V", "a", "r", "i", "a", "t", "i", "o", "n">>)] : r \in 2..Len(coll)} \ {<<>>} :
                    Cardinality(C16_GroupRows(v)) = 1

C16_HoldsScNoRepeat == impl = "sc" /\ C16_NoRepeat => C16_DetailImages

\* shopee_creator: a group whose later row leaves Details Index blank got
\* its images from the first row's count
C16_WitnessSc ==
    /\ impl = "sc" /\ C16_NoRepeat
    /\ \E k \in StepCalls("C5") : \E t \in C16_Rows(runs[k].before) :
          /\ C16_Count(C16_VarOf(runs[k].before, t)) = 3
          /\ BlockCell(runs[k].before, t, <<"S", "K", "U">>) = <<"S", "2">>
          /\ BlockCell(StepAfter(k), t, C16_ItemName(3)) # <<>>
          /\ BlockCell(StepAfter(k), t, C16_ItemName(4)) = <<>>

C16_HoldsSc == impl = "sc" => C16_DetailImages
C16_HoldsIc == impl = "ic" => C16_DetailImages

(***************************************************************************)
(* C17                                                                     *)
(***************************************************************************)
C17_CoverBase(k) == IF impl = "sc" THEN runs[k].base_url ELSE ImageConfig.cover_base_url
C17_OptionBase(k) == IF impl = "sc" THEN runs[k].base_url ELSE ImageConfig.option_base_url

\* the data rows with a variation id and a SKU in blocks with both columns
C17_Rows(vals) ==
    {t \in C16_Rows(vals) :
        /\ BlockCell(vals, t, <<"S", "K", "U">>) # <<>>
        /\ BlockColumn(vals, t, <<"C", "o", "v", "e", "r", " ", "i", "m", "a", "g", "e">>) # 0
        /\ BlockColumn(vals, t, <<"I", "m", "a", "g", "e", " ", "p", "e", "r", " ", "V", "a", "r", "i", "a", "t", "i", "o", "n">>) # 0}

C17_CoverOk(k, t) ==
    BlockCell(StepAfter(k), t, <<"C", "o", "v", "e", "r", " ", "i", "m", "a", "g", "e">>) =
        ImageUrl(C17_CoverBase(k),
                 C16_VarOf(runs[k].before, t) \o <<"_", "C", "_">> \o ImageConfig.shop_code \o <<".", "j", "p", "g">>)

C17_OptionOk(k, t) ==
    BlockCell(StepAfter(k), t, <<"I", "m", "a", "g", "e", " ", "p", "e", "r", " ", "V", "a", "r", "i", "a", "t", "i", "o", "n">>) =
        ImageUrl(C17_OptionBase(k), BlockCell(runs[k].before, t, <<"S", "K", "U">>) \o <<".", "j", "p", "g">>)

\* C17: after C5 a data row with variation id V and sku S holds
\* {base}/{V}_C_{shop_code}.jpg as cover image and {base}/{S}.jpg as image
\* per variation, one slash between base and file name whether or not the
\* base ends in a slash.
C17_CoverAndOption ==
    \A k \in StepCalls("C5") : ~runs[k].raised =>
        \A t \in C17_Rows(runs[k].before) : C17_CoverOk(k, t) /\ C17_OptionOk(k, t)

C17_HoldsSc == impl = "sc" => C17_CoverAndOption

C17_CoverIc ==
    impl = "ic" => \A k \in StepCalls("C5") : \A t \in C17_Rows(runs[k].before) : C17_CoverOk(k, t)

\* shopee_creator: one call with a base that ends in a slash, one without
C17_WitnessSc ==
    /\ impl = "sc" /\ Len(runs) = 2
    /\ runs[1].step = "C5" /\ runs[2].step = "C5"
    /\ runs[1].base_url = <<"u", "/", "c", "/">> /\ runs[2].base_url = <<"u", "/", "d">>
    /\ \E t \in C17_Rows(tem) : BlockCell(tem, t, <<"C", "o", "v", "e", "r", " ", "i", "m", "a", "g", "e">>) = <<"u", "/", "d", "/", "V", "1", "_", "C", "_", "T", "H", ".", "j", "p", "g">>
    /\ \E t \in C17_Rows(tem) : BlockCell(runs[2].before, t, <<"C", "o", "v", "e", "r", " ", "i", "m", "a", "g", "e">>) = <<"u", "/", "c", "/", "V", "1", "_", "C", "_", "T", "H", ".", "j", "p", "g">>

(***************************************************************************)
(* C18 (pipeline run, Spec)                                                *)
(***************************************************************************)
\* the Collection holds the row create TRUE, V1, S1, Beauty, 3 detail images
\* and TemplateDict has the Beauty schema
C18_Input ==
    /\ \E r \in 2..Len(coll) : coll[r] = RowFull
    /\ \E d \in 2..Len(tdict) : tdict[d][1] = <<"B", "e", "a", "u", "t", "y">>

C18_RowOk(t) ==
    /\ BlockCell(tem, t, <<"S", "K", "U">>) = <<"S", "1">>
    /\ \A n \in 1..3 :
          BlockCell(tem, t, C16_ItemName(n)) =
              ImageUrl(ImageConfig.details_base_url, <<"V", "1", "_", "D">> \o IntToStr(n) \o <<".", "j", "p", "g">>)
    /\ \A n \in 4..8 :
          BlockColumn(tem, t, C16_ItemName(n)) # 0 /\ BlockCell(tem, t, C16_ItemName(n)) = <<>>

\* C18: after a successful run on a Collection row with create true,
\* variation V1, a SKU, a category whose top-level key is in TemplateDict and
\* detail count 3, TEM_OUTPUT has a row with that SKU whose Item Image 1..3
\* are {base}/V1_D1.jpg .. {base}/V1_D3.jpg and whose Item Image 4..8 are
\* blank.
C18_EndToEnd == pc = "done" /\ C18_Input => \E t \in DataRowsOf(tem) : C18_RowOk(t)

\* shopee_creator: no run on such a Collection succeeds
C18_ScNeverDone == impl = "sc" /\ C18_Input => pc # "done"

\* shopee_creator: the run reaches C6 with the row's item image cells blank
C18_ScBlankAtC6 ==
    impl = "sc" /\ C18_Input /\ pc = "C6" =>
        \E t \in DataRowsOf(tem) :
            /\ BlockCell(tem, t, <<"S", "K", "U">>) = <<"S", "1">>
            /\ \A n \in 1..8 : BlockCell(tem, t, C16_ItemName(n)) = <<>>

\* item_creator: the row is there, its item images lack the extension
C18_IcNoExtension ==
    impl = "ic" /\ C18_Input /\ pc = "done" =>
        \E t \in DataRowsOf(tem) :
            /\ BlockCell(tem, t, <<"S", "K", "U">>) = <<"S", "1">>
            /\ \A n \in 1..3 :
                  BlockCell(tem, t, C16_ItemName(n)) =
                      ImageUrl(ImageConfig.details_base_url, <<"V", "1", "_", "D">> \o IntToStr(n))
            /\ \A n \in 4..8 : BlockCell(tem, t, C16_ItemName(n)) = <<>>

(***************************************************************************)
(* C19 (pipeline run, Spec)                                                *)
(***************************************************************************)
C19_Reasons == {<<"C", "A", "T", "E", "G", "O", "R", "Y", "_", "M", "I", "S", "S", "I", "N", "G">>, <<"T", "E", "M", "P", "L", "A", "T", "E", "_", "T", "O", "P", "L", "E", "V", "E", "L", "_", "N", "O", "T", "_", "F", "O", "U", "N", "D">>}

\* row k + 1 of Failures is the k-th failure of this run: five columns, the
\* reason of the k-th failed Collection row
C19_RowOk(k) ==
    /\ Len(fails[k + 1]) = 5
    /\ fails[k + 1] = c2.failures[k]
    /\ fails[k + 1][4] \in C19_Reasons
    /\ fails[k + 1][4] = C2_Reason(KthRow(C2_FailedRows, k))

\* C19: every failure C2 recorded is one five-column row of the Failures
\* worksheet, reason CATEGORY_MISSING or TEMPLATE_TOPLEVEL_NOT_FOUND; after
\* the run Failures holds the header row and then exactly this run's
\* failures in Collection row order, none from earlier runs.
C19_FailuresSheet ==
    C2Ran /\ ~c2.raised =>
        /\ fails_exists
        /\ Len(fails) = 1 + Cardinality(C2_FailedRows)
        /\ fails[1] = FailuresHeader
        /\ \A k \in 1..Cardinality(C2_FailedRows) : C19_RowOk(k)

C19_HoldsIc == impl = "ic" => C19_FailuresSheet

\* shopee_creator never touches Failures
C19_ScUntouched ==
    impl = "sc" => fails_exists = prior.fails_exists /\ fails = prior.fails

\* item_creator: a finished run with a failure of each kind over a Failures
\* worksheet that held a row of an earlier run
C19_WitnessIc ==
    /\ impl = "ic" /\ pc = "done"
    /\ prior.fails = OldFailures
    /\ \E j, k \in 1..Len(c2.failures) :
          /\ j < k
          /\ fails[j + 1][4] # fails[k + 1][4]

(***************************************************************************)
(* C20 (SpecRetry)                                                         *)
(***************************************************************************)
C20_Failed(k) == rt_calls[k] # "ok"

\* C20: with_retry makes at most the fixed number of calls; it returns the
\* result of the first call that succeeds and calls no more after it; when
\* every attempt fails it raises the last error; it never returns normally
\* without a successful call.
C20_Terminates ==
    /\ Len(rt_calls) <= Attempts(rt_impl)
    /\ \A k \in 1..Len(rt_calls) : rt_calls[k] = "ok" => k = Len(rt_calls) /\ rt_status = "returned"
    /\ rt_status = "returned" =>
          rt_calls[Len(rt_calls)] = "ok" /\ rt_result = <<"ok", Len(rt_calls)>>
    /\ rt_status # "returned_none"
    /\ rt_status = "raised" =>
          /\ \A k \in 1..Len(rt_calls) : C20_Failed(k)
          /\ rt_result = <<rt_calls[Len(rt_calls)], Len(rt_calls)>>
    /\ Len(rt_calls) = Attempts(rt_impl) /\ (\A k \in 1..Len(rt_calls) : C20_Failed(k)) =>
          rt_status \in {"running", "raised"}

\* a run in which every attempt failed and the last error was raised
C20_Witness ==
    /\ rt_status = "raised"
    /\ Len(rt_calls) = Attempts(rt_impl)
    /\ rt_calls[1] # rt_calls[Len(rt_calls)]

\* a run that succeeded on a retry
C20_WitnessRetried ==
    rt_status = "returned" /\ Len(rt_calls) > 1 /\ Len(rt_calls) < Attempts(rt_impl)

(***************************************************************************)
(* C21 (SpecRetry)                                                         *)
(***************************************************************************)
\* C21: with_retry retries only API errors with status 429, 500 or 503: a
\* call that failed in another way (an API error with another status, an
\* exception that is no API error) is the last call, and its error is what
\* the caller gets.
C21_OnlyTransientRetried ==
    \A k \in 1..Len(rt_calls) :
        rt_calls[k] \notin Retryable \cup {"ok"} =>
            /\ k = Len(rt_calls)
            /\ rt_status = "raised"
            /\ rt_result = <<rt_calls[k], k>>

\* what shopee_creator's with_retry does keep: an API error with another
\* status is raised at once
C21_ScOtherStatusRaised ==
    rt_impl = "sc" =>
        \A k \in 1..Len(rt_calls) :
            rt_calls[k] \in ApiErrors \ Retryable =>
                k = Len(rt_calls) /\ rt_status = "raised" /\ rt_result = <<rt_calls[k], k>>

\* shopee_creator: a second call after an exception that is no API error
C21_ScRetriesOther == ~(rt_impl = "sc" /\ Len(rt_calls) = 2 /\ rt_calls[1] = "other")

\* item_creator: a second call after an API error with status 404
C21_IcRetries404 == ~(rt_impl = "ic" /\ Len(rt_calls) = 2 /\ rt_calls[1] = "api404")

(***************************************************************************)
(* C22 (Spec)                                                              *)
(***************************************************************************)
ScPipeline == <<"C1", "C2", "C3", "C4", "C5", "C6">>

\* the run is inside its pipeline loop or has returned its log list
ScInRun == impl = "sc" /\ pc \in {"C1", "C2", "C3", "C4", "C5", "C6", "done", "failed"}

LogsOkUpTo(n) == \A k \in 1..n : logs[k][2]

\* C22: shopee_creator's run executes C1 .. C6 in this order, a step only
\* after every earlier one succeeded, and stops at the first step that
\* raises: the log list is one ok entry per completed step in pipeline
\* order, then at most one failed entry, which is the last.
C22_LogOrder ==
    ScInRun =>
        /\ Len(logs) <= Len(ScPipeline)
        /\ \A k \in 1..Len(logs) : logs[k][1] = ScPipeline[k]
        /\ LogsOkUpTo(Len(logs) - 1)
        /\ pc = "failed" <=> (logs # <<>> /\ ~logs[Len(logs)][2])
        /\ pc = "done" <=> (Len(logs) = Len(ScPipeline) /\ LogsOkUpTo(Len(logs)))
        /\ pc \in {"C1", "C2", "C3", "C4", "C5", "C6"} =>
              LogsOkUpTo(Len(logs)) /\ pc = ScPipeline[Len(logs) + 1]

\* a run whose first five steps completed and whose sixth raised
C22_Witness ==
    /\ ScInRun
    /\ pc = "failed"
    /\ Len(logs) = 6
    /\ LogsOkUpTo(5)
    /\ ~logs[6][2]

\* a run that completed all six steps, and one that stopped at C2
C22_WitnessDone == ScInRun /\ pc = "done" /\ Len(logs) = 6
C22_WitnessC2 == ScInRun /\ pc = "failed" /\ Len(logs) = 2 /\ tem # prior.tem

(***************************************************************************)
(* C23 (Spec)                                                              *)
(***************************************************************************)
\* the reference spreadsheet has no TemplateDict worksheet, or (in
\* shopee_creator) TemplateDict has no data row
C23_NoTemplateDict == ~tdict_exists \/ (impl = "sc" /\ Len(tdict) < 2)

\* the run has called run_step_C2
C23_C2Called == \E k \in 1..Len(logs) : logs[k][1] = "C2"

\* Failures as the steps before C2 leave it
C23_FailuresBeforeC2 ==
    IF impl = "ic"
    THEN fails_exists /\ fails = <<FailuresHeader>>
    ELSE fails_exists = prior.fails_exists /\ fails = prior.fails

\* C23: without a TemplateDict worksheet (in shopee_creator also with a
\* TemplateDict without data row) C2 fails before it writes anything:
\* TEM_OUTPUT stays empty as C1 left it, the run has failed at C2 and no
\* later step has run.
C23_FailsAtC2 ==
    C23_NoTemplateDict /\ C23_C2Called =>
        /\ logs[Len(logs)] = <<"C2", FALSE>>
        /\ LogsOkUpTo(Len(logs) - 1)
        /\ pc \in {"failed", "C7_done"}
        /\ tem_exists /\ tem = <<>>
        /\ C23_FailuresBeforeC2
        /\ written \subseteq {"TEM_OUTPUT", "Failures"}

\* C2 has failed for want of the worksheet, over a TEM_OUTPUT that held
\* cells of an earlier run
C23_Witness ==
    /\ ~tdict_exists
    /\ C23_C2Called
    /\ c2.raised
    /\ prior.tem # <<>>
    /\ Len(coll) > 2

\* shopee_creator, TemplateDict with its header row only
C23_WitnessNoData ==
    impl = "sc" /\ tdict_exists /\ Len(tdict) < 2 /\ C23_C2Called /\ c2.raised /\ Len(coll) > 2

\* item_creator: a run over a TemplateDict with its header row only that
\* completed
C23_IcNoDataDone == impl = "ic" /\ tdict_exists /\ Len(tdict) < 2 /\ pc = "done"

(***************************************************************************)
(* C24 (SpecCsv)                                                           *)
(***************************************************************************)
\* a matrix whose blocks start at column off + 1: the header row of row t
CsvHeaderOf(vals, t, off) == MaxOf({h \in 1..t : CellAt(vals[h], off + 1) = <<"C", "a", "t", "e", "g", "o", "r", "y">>})

CsvIsData(vals, t, off) ==
    /\ CellAt(vals[t], off + 1) # <<"C", "a", "t", "e", "g", "o", "r", "y">>
    /\ \E h \in 1..t : CellAt(vals[h], off + 1) = <<"C", "a", "t", "e", "g", "o", "r", "y">>

CsvCell(vals, t, off, name) ==
    CellAt(vals[t], FirstIn({c \in (off + 1)..Len(vals[CsvHeaderOf(vals, t, off)]) :
                               vals[CsvHeaderOf(vals, t, off)][c] = name}))

\* the (category, sku, product name) of every data row, in row order
CsvTriples(vals, off) ==
    Flatten([t \in 1..Len(vals) |->
        IF CsvIsData(vals, t, off)
        THEN << <<CsvCell(vals, t, off, <<"C", "a", "t", "e", "g", "o", "r", "y">>), CsvCell(vals, t, off, <<"S", "K", "U">>),
                  CsvCell(vals, t, off, <<"P", "r", "o", "d", "u", "c", "t", " ", "N", "a", "m", "e">>)>> >>
        ELSE <<>>])

\* shopee_creator's export drops the PID column, item_creator's keeps it
CsvOffset == IF impl = "sc" THEN 0 ELSE 1

\* C24: the CSV export of TEM_OUTPUT, read back, gives for every data row
\* and in the same order the (category, sku, product name) that TEM_OUTPUT
\* holds, also for a category with " - " between code and name.
C24_RoundTrip ==
    pc = "read" => CsvTriples(csv_rows, CsvOffset) = CsvTriples(tem, 1)

C24_HoldsIc == impl = "ic" => C24_RoundTrip

\* item_creator: the file read back is the worksheet, cell for cell
C24_IcWholeSheet == impl = "ic" /\ pc = "read" => csv_rows = tem

\* shopee_creator: sku and product name come back, and the category with
\* the spaces around its hyphens removed
C24_ScCategoryRewritten ==
    impl = "sc" /\ pc = "read" =>
        /\ Len(CsvTriples(csv_rows, 0)) = Len(CsvTriples(tem, 1))
        /\ \A k \in 1..Len(CsvTriples(tem, 1)) :
              /\ CsvTriples(csv_rows, 0)[k][1] = sub_hyphens(CsvTriples(tem, 1)[k][1])
              /\ CsvTriples(csv_rows, 0)[k][2] = CsvTriples(tem, 1)[k][2]
              /\ CsvTriples(csv_rows, 0)[k][3] = CsvTriples(tem, 1)[k][3]

\* item_creator: a file read back whose rows have a quoted product name, a
\* product name of two lines and a category with " - "
C24_WitnessIc ==
    /\ impl = "ic"
    /\ pc = "read"
    /\ \E k \in 1..Len(CsvTriples(tem, 1)) :
          CsvTriples(tem, 1)[k][1] = <<"7", " ", "-", " ", "B", "e", "a", "u", "t", "y", "/", "L", "i", "p">> /\ CsvTriples(tem, 1)[k][3] = NameQuoted
    /\ \E k \in 1..Len(CsvTriples(tem, 1)) : CsvTriples(tem, 1)[k][3] = NameTwoLines

(***************************************************************************)
(* C25 (SpecLookup)                                                        *)
(***************************************************************************)
LookImpl == IF lk_fn = "ic_find" THEN "ic" ELSE "sc"

LookKeys == KeysOf(LookImpl, lk_headers)

\* the name and its aliases after normalisation, without the empty ones
LookAliases == {header_key(LookImpl, a) : a \in SeqToSet(lk_alias) \cup {lk_name}} \ {<<>>}

LookExact == {i \in 1..Len(LookKeys) : LookKeys[i] \in LookAliases}

LookPartial == {i \in 1..Len(LookKeys) : \E a \in LookAliases : Contains(LookKeys[i], a)}

\* C25: the lookup returns the first header that equals the name or an
\* alias after normalisation; if there is none, the first header that
\* contains a non-empty alias; if there is none either, -1.  An alias that
\* normalises to the empty string matches no header.
C25_Lookup ==
    lk_fn # "" =>
        lk_result = IF LookExact # {} THEN MinOf(LookExact) ELSE FirstIn(LookPartial)

\* _find_col_index, as long as no alias normalises to the empty string
C25_FindNonEmpty ==
    /\ lk_fn \in {"sc_find", "ic_find"}
    /\ \A a \in SeqToSet(lk_alias) \cup {lk_name} : header_key(LookImpl, a) # <<>>
    => lk_result = IF LookExact # {} THEN MinOf(LookExact) ELSE FirstIn(LookPartial)

\* item_creator: the name normalises to the empty string and a blank
\* header before the price header is returned
C25_IcBlankHeader ==
    /\ lk_fn = "ic_find"
    /\ lk_name = CONSUMER_PRICE
    /\ lk_headers = << <<"S", "K", "U">>, <<>>, <<"P", "r", "i", "c", "e">> >>
    /\ lk_result = 2

\* _pick_index_by_candidates: the header matching the earlier candidate is
\* returned, not the first matching header
C25_PickCandidateOrder ==
    /\ lk_fn = "sc_pick"
    /\ lk_name = <<"s", "k", "u">>
    /\ lk_headers = << <<"S", "e", "l", "l", "e", "r", "_", "S", "K", "U">>, <<"S", "K", "U">> >>
    /\ lk_result = 2

\* an exact match after a header that only contains the name
C25_ExactAfterPartial ==
    /\ lk_fn = "sc_find"
    /\ lk_name = <<"s", "k", "u">>
    /\ lk_headers = << <<"M", "y", " ", "S", "K", "U">>, <<"S", "K", "U">> >>
    /\ lk_result = 2

(***************************************************************************)
(* C26: C3 (overwrite off), C5 and C6 are idempotent                       *)
(***************************************************************************)
\* the calls that repeat the call right before them: the same step with the
\* same arguments, on the TEM_OUTPUT the first call left
C26_SecondCalls ==
    {k \in 2..Len(runs) :
        /\ runs[k].step \in {"C3", "C5", "C6"}
        /\ runs[k - 1].step = runs[k].step
        /\ ~runs[k].overwrite /\ ~runs[k - 1].overwrite
        /\ runs[k - 1].base_url = runs[k].base_url}

\* C26: a back-fill step C3 (overwrite off), C5 or C6 that runs a second
\* time right after a first run, with Collection, MARGIN and the reference
\* data unchanged, issues no cell write and leaves TEM_OUTPUT exactly as
\* the first run left it
C26_Idempotent ==
    \A k \in C26_SecondCalls :
        /\ runs[k].updates = <<>>
        /\ StepAfter(k) = runs[k].before

C26_FirstWrote(step) ==
    \E k \in C26_SecondCalls :
        /\ runs[k].step = step
        /\ runs[k - 1].updates # <<>>
        /\ ~runs[k - 1].raised
        /\ runs[k].before # runs[k - 1].before

C26_Witness == impl = "sc" /\ C26_FirstWrote("C3")
C26_WitnessC5Sc == impl = "sc" /\ C26_FirstWrote("C5")
C26_WitnessC5Ic == impl = "ic" /\ C26_FirstWrote("C5")
C26_WitnessC6Ic == impl = "ic" /\ C26_FirstWrote("C6")
C26_WitnessC6Sc == impl = "sc" /\ C26_FirstWrote("C6")

(***************************************************************************)
(* C27 (Spec): the return value of item_creator's run                      *)
(***************************************************************************)
\* the statements of the try block of ShopeeCreator.run, in program order
IcPipeline ==
    <<"connect", "assert_ref", "reset_failures", "C1", "C2", "C4", "C5", "C6">>

\* run has returned True / has returned False
IcReturnedTrue == impl = "ic" /\ pc = "done"
IcReturnedFalse == impl = "ic" /\ pc = "failed"

\* the reference spreadsheet could not be opened
IcRefUnavailable ==
    /\ impl = "ic"
    /\ logs # <<>>
    /\ logs[Len(logs)] = <<"assert_ref", FALSE>>

C27_WitnessTrue == IcReturnedTrue /\ tem # prior.tem /\ "Failures" \in written
C27_WitnessC4 ==
    /\ IcReturnedFalse
    /\ Len(logs) = 6
    /\ ~logs[6][2]
    /\ "TEM_OUTPUT" \in written
C27_WitnessNoSheet == IcReturnedFalse /\ logs = << <<"connect", FALSE>> >> /\ written = {}

(***************************************************************************)
(* C28 (SpecStep): every row is read under the header of its own block     *)
(***************************************************************************)
HeaderRowsOf(vals) == {t \in 1..Len(vals) : vals[t][1] = <<"P", "I", "D">>}

\* the last row of the block that starts at header row h
BlockEnd(vals, h) ==
    MinOf({t \in h..Len(vals) : t = Len(vals) \/ (t + 1) \in HeaderRowsOf(vals)})

\* the block that starts at header row h, as a worksheet of its own
BlockAlone(vals, h) == get_all_values(SubSeq(vals, h, BlockEnd(vals, h)))

\* the batch call k's step builds when the worksheet holds vals
C28_Batch(k, vals) ==
    CASE runs[k].step = "C3" -> c3_updates(vals, c3_target_categories(fda), runs[k].overwrite)
      [] runs[k].step = "C4" -> c4_updates(impl, vals, coll, margin)
      [] runs[k].step = "C5" ->
            IF impl = "sc"
            THEN c5_sc_updates(vals, coll, runs[k].base_url, ImageConfig.shop_code)
            ELSE c5_ic_updates(vals, coll, ImageConfig)
      [] runs[k].step = "C6" -> IF impl = "sc" THEN <<>> ELSE c6_ic_updates(vals, margin)

\* the updates of call k that address rows of the block at h, with the rows
\* counted from the block's header
C28_InBlock(k, h) ==
    {<<u[1] - h + 1, u[2], u[3]>> :
        u \in {w \in SeqToSet(runs[k].updates) :
                  w[1] >= h /\ w[1] <= BlockEnd(runs[k].before, h)}}

\* the calls made on a TEM_OUTPUT of two or more header blocks
C28_Calls == {k \in 1..Len(runs) : Cardinality(HeaderRowsOf(runs[k].before)) >= 2}

C28_CallOk(k) ==
    /\ \A t \in HeaderRowsOf(runs[k].before) :
          /\ t \notin RowsWritten(runs[k].updates)
          /\ StepAfter(k)[t] = runs[k].before[t]
    /\ \A h \in HeaderRowsOf(runs[k].before) :
          C28_InBlock(k, h) = SeqToSet(C28_Batch(k, BlockAlone(runs[k].before, h)))

\* C28: on a TEM_OUTPUT of two or more header blocks with different
\* schemas, each back-fill step C3 .. C6 finds the columns of a data row in
\* the header row of the row's own block (it writes to the rows of a block
\* what it writes when that block is the whole worksheet), takes every
\* header row as a header, and changes no cell of a header row
C28_OwnBlock == \A k \in C28_Calls : C28_CallOk(k)

C28_StepOk(i, step) ==
    impl = i => \A k \in C28_Calls : runs[k].step = step => C28_CallOk(k)

C28_HoldsC3 == C28_StepOk("sc", "C3")
C28_HoldsC4Sc == C28_StepOk("sc", "C4")
C28_HoldsC5Sc == C28_StepOk("sc", "C5")
C28_HoldsC4Ic == C28_StepOk("ic", "C4")
C28_HoldsC5Ic == C28_StepOk("ic", "C5")
C28_HoldsC6Ic == C28_StepOk("ic", "C6")

\* shopee_creator's C5 changed a cell of a later block's header row
C28_ScC5HeaderChanged ==
    /\ impl = "sc"
    /\ \E k \in C28_Calls :
          /\ runs[k].step = "C5"
          /\ \E t \in HeaderRowsOf(runs[k].before) : t \in RowsWritten(runs[k].updates)

(***************************************************************************)
(* C29 (SpecFF): what forward_fill_by_group leaves alone                   *)
(***************************************************************************)
C29_SameShape ==
    /\ Len(ff_out) = Len(ff_in)
    /\ \A i \in 1..Len(ff_in) : Len(ff_out[i]) = Len(ff_in[i])

C29_CellKept(i, c) == ff_out[i][c] = ff_in[i][c]

C29_Kept ==
    /\ ff_out[1] = ff_in[1]
    /\ \A i \in 1..Len(ff_in) : \A c \in 1..Len(ff_in[i]) :
          (c \notin FFFillCols \/ ~FFIsBlankCell(ff_in[i][c])) => C29_CellKept(i, c)

C29_Returned == ff_run # "" => (C29_SameShape /\ C29_Kept)

\* C29: forward_fill_by_group, under either reset predicate, returns a
\* table with the row count and row lengths of its input and does not
\* modify the input; the header row, every column outside fill_col_indices
\* and every cell that was non-blank in the input are the same in the
\* result
C29_Preserves == []C29_Returned /\ [][ff_in' = ff_in]_vars

C29_HoldsIc == ff_run \in {"ic_blank", "ic_create"} => (C29_SameShape /\ C29_Kept)
C29_HoldsScBlank == ff_run = "sc_blank" => (C29_SameShape /\ C29_Kept)

\* shopee_creator erased a non-blank cell of a row the predicate resets on
C29_ScErased ==
    /\ ff_run = "sc_create"
    /\ \E i \in 2..Len(ff_in) : \E c \in FFFillCols :
          /\ reset_when("blank_or_not_create", FFCreateCol, ff_in[i])
          /\ ~FFIsBlankCell(ff_in[i][c])
          /\ ff_out[i][c] = <<>>

\* a blank cell was filled and every non-blank cell kept
C29_WitnessIc ==
    /\ ff_run = "ic_create"
    /\ \E i \in 2..Len(ff_in) : FFIsBlankCell(ff_in[i][FFValueCol]) /\ ff_out[i][FFValueCol] # <<>>
    /\ \E i \in 2..Len(ff_in) :
          reset_when("blank_or_not_create", FFCreateCol, ff_in[i]) /\ ff_in[i][FFValueCol] # <<>>

(***************************************************************************)
(* C30 (SpecStep): one update per cell in a batch                          *)
(***************************************************************************)
\* the calls that build a batch of cell updates: C3, C4, C6 and
\* item_creator's C5
C30_Calls ==
    {k \in 1..Len(runs) :
        runs[k].step \in {"C3", "C4", "C6"} \/ (runs[k].step = "C5" /\ impl = "ic")}

C30_Backwards(updates) == [u \in 1..Len(updates) |-> updates[Len(updates) + 1 - u]]

C30_CallOk(k) ==
    /\ \A u, w \in 1..Len(runs[k].updates) :
          (runs[k].updates[u][1] = runs[k].updates[w][1]
           /\ runs[k].updates[u][2] = runs[k].updates[w][2]) => u = w
    /\ write_updates(runs[k].before, C30_Backwards(runs[k].updates)) = StepAfter(k)

\* C30: in the batch one execution of C3, C4, C6 or item_creator's C5
\* builds no two updates address the same (row, column) cell, and the
\* worksheet after the batch is the same when the updates are applied in
\* the opposite order
C30_OneUpdatePerCell == \A k \in C30_Calls : C30_CallOk(k)

C30_StepOk(i, step) ==
    impl = i => \A k \in C30_Calls : runs[k].step = step => C30_CallOk(k)

C30_HoldsC3 == C30_StepOk("sc", "C3")
C30_HoldsC4Sc == C30_StepOk("sc", "C4")
C30_HoldsC4Ic == C30_StepOk("ic", "C4")
C30_HoldsC5Ic == C30_StepOk("ic", "C5")
C30_HoldsC6Ic == C30_StepOk("ic", "C6")

\* a batch of C4 with two different values for one cell
C30_TwoValues ==
    \E k \in StepCalls("C4") : \E u, w \in 1..Len(runs[k].updates) :
        /\ u < w
        /\ runs[k].updates[u][1] = runs[k].updates[w][1]
        /\ runs[k].updates[u][2] = runs[k].updates[w][2]
        /\ runs[k].updates[u][3] # runs[k].updates[w][3]
C30_TwoValuesSc == impl = "sc" /\ C30_TwoValues
C30_TwoValuesIc == impl = "ic" /\ C30_TwoValues

\* a batch of more than one update with one update per cell
C30_WitnessC6Ic ==
    impl = "ic" /\ \E k \in StepCalls("C6") : Len(runs[k].updates) >= 2

============================================================================
